---- MODULE Spec2Model ----
(***************************************************************************)
(* Model of the request dispatch and tool-execution engine of the Cognee   *)
(* MCP server: core/mcp_server.py (message loop, dispatcher, handlers),    *)
(* core/tool_registry.py (registry, guarded call path, rate limiter,       *)
(* statistics), core/error_handler.py (error taxonomy and bookkeeping) and *)
(* schemas/mcp_models.py (protocol envelopes and their validation).        *)
(***************************************************************************)
EXTENDS Integers, Sequences, FiniteSets, TLC

(***************************************************************************)
(* Bounds of the model.                                                    *)
(***************************************************************************)
\* number of non-blank input lines the message loop reads, any line
MaxLines == 2
\* number of non-blank input lines the message loop reads, initialize and
\* tools/call requests only
MaxRequests == 4
\* last instant of the clock (seconds)
MaxNow == 60
\* number of registrations made on an empty registry
MaxRegistrations == 2
\* executions of a tool the registry is called for directly
MaxCalls == 1
\* termination signals the process receives
MaxSignals == 1
\* exceptions given to one error handler
MaxErrors == 52
\* the largest max_retries a retry wrapper is made with
MaxRetries == 2
\* HTTP requests the API client sends
MaxHttp == 3

(***************************************************************************)
(* Program constants.                                                      *)
(***************************************************************************)
\* Python's None for Optional[int] / Optional[datetime] fields
None == -1
\* timedelta(minutes=1), in seconds
Window == 60
\* ToolMetadata.timeout default, in seconds
DefaultTimeout == 30
\* length of the rolling error log
RecentCap == 50

PARSE_ERROR == -32700
METHOD_NOT_FOUND == -32601
INVALID_PARAMS == -32602
INTERNAL_ERROR == -32603
AUTHENTICATION_ERROR == -32001
AUTHORIZATION_ERROR == -32002
RESOURCE_NOT_FOUND == -32003
RESOURCE_UNAVAILABLE == -32004

(***************************************************************************)
(* JSON values on the wire.  An id is a typed value: the string "1" and    *)
(* the integer 1 are different ids.                                        *)
(***************************************************************************)
IdStr(s) == [t |-> "str", v |-> s]
IdInt(s) == [t |-> "int", v |-> s]
IdNull == [t |-> "null", v |-> ""]
RequestIds == {IdStr("1"), IdInt("1"), IdNull}

\* JSON types of an argument value; "absent" is a key that is not present
JsonTypes == {"string", "int", "float", "bool", "array", "object", "null"}
Fields == {"x", "y"}
NoArgs == [f \in Fields |-> "absent"]

KnownMethods == {"initialize", "tools/list", "tools/call", "resources/list",
                 "resources/read", "prompts/list", "prompts/get"}

ToolNames == {"t1", "t2"}
UnknownTool == "zz"
Categories == {"basic", "graph"}

(***************************************************************************)
(* Tool registry: core/tool_registry.py                                    *)
(***************************************************************************)
\* BaseTool.__init__: the statistics of a fresh tool instance.  The average
\* is the quotient of a float division, kept as the pair of its operands.
NewStats == [total_calls |-> 0, successful_calls |-> 0, failed_calls |-> 0,
             total_execution_time |-> 0,
             average_execution_time |-> [num |-> 0, den |-> 1]]

\* ToolMetadata
ToolMetadata(name, category, requires_auth, rate_limit, timeout, enabled) ==
    [name |-> name, category |-> category, requires_auth |-> requires_auth,
     rate_limit |-> rate_limit, timeout |-> timeout, enabled |-> enabled]

\* the input schema the tools of the model declare: required is a list,
\* properties an ordered dict of field and declared type
ToolInputSchema == [required |-> <<"x">>,
                    properties |-> << <<"x", "number">>, <<"y", "string">> >>]

\* a tool instance
BaseTool(metadata) == [metadata |-> metadata, schema |-> ToolInputSchema,
                       stats |-> NewStats]

\* isinstance(value, T) on a value decoded from JSON, for the Python type the
\* declared schema type is checked against; bool is a subclass of int
IsInstance(jt, expected_type) ==
    CASE expected_type = "string" -> jt = "string"
      [] expected_type = "number" -> jt \in {"int", "float", "bool"}
      [] expected_type = "boolean" -> jt = "bool"
      [] expected_type = "array" -> jt = "array"
      [] expected_type = "object" -> jt = "object"
      [] OTHER -> TRUE

Valid == [ok |-> TRUE, field |-> "", why |-> ""]

\* the first required field, in list order, that the arguments lack ("" if
\* none): the loop over schema.required
RECURSIVE FirstMissing(_, _)
FirstMissing(required, arguments) ==
    IF required = <<>> THEN ""
    ELSE IF arguments[Head(required)] = "absent" THEN Head(required)
    ELSE FirstMissing(Tail(required), arguments)

\* the first property, in dict order, whose present value is not of the
\* declared type ("" if none): the loop over schema.properties.items()
RECURSIVE FirstMismatch(_, _)
FirstMismatch(properties, arguments) ==
    IF properties = <<>> THEN ""
    ELSE IF /\ arguments[Head(properties)[1]] # "absent"
            /\ ~IsInstance(arguments[Head(properties)[1]], Head(properties)[2])
         THEN Head(properties)[1]
    ELSE FirstMismatch(Tail(properties), arguments)

\* validate_arguments checking the types before the required fields
validate_arguments_types_first(schema, arguments) ==
    LET Raise(missing, mismatch) ==
            IF mismatch # "" THEN [ok |-> FALSE, field |-> mismatch, why |-> "type"]
            ELSE IF missing # "" THEN [ok |-> FALSE, field |-> missing, why |-> "missing"]
            ELSE Valid
    IN  Raise(FirstMissing(schema.required, arguments),
              FirstMismatch(schema.properties, arguments))

\* BaseTool.validate_arguments: the ValidationError it raises, or Valid
validate_arguments(schema, arguments) ==
    LET Raise(missing, mismatch) ==
            IF missing # "" THEN [ok |-> FALSE, field |-> missing, why |-> "missing"]
            ELSE IF mismatch # "" THEN [ok |-> FALSE, field |-> mismatch, why |-> "type"]
            ELSE Valid
    IN  Raise(FirstMissing(schema.required, arguments),
              FirstMismatch(schema.properties, arguments))

\* update_stats counting the call only where it succeeded
update_stats_success_only(stats, execution_time, success) ==
    IF ~success THEN [stats EXCEPT !.failed_calls = @ + 1]
    ELSE [total_calls |-> stats.total_calls + 1,
          successful_calls |-> stats.successful_calls + 1,
          failed_calls |-> stats.failed_calls,
          total_execution_time |-> stats.total_execution_time + execution_time,
          average_execution_time |->
              [num |-> stats.total_execution_time + execution_time,
               den |-> stats.total_calls + 1]]

\* update_stats called with success = True whatever the outcome
update_stats_as_success(stats, execution_time, success) ==
    [total_calls |-> stats.total_calls + 1,
     successful_calls |-> stats.successful_calls + 1,
     failed_calls |-> stats.failed_calls,
     total_execution_time |-> stats.total_execution_time + execution_time,
     average_execution_time |->
         [num |-> stats.total_execution_time + execution_time,
          den |-> stats.total_calls + 1]]

\* BaseTool.update_stats
update_stats(stats, execution_time, success) ==
    LET Updated(total, time) ==
            [total_calls |-> total,
             successful_calls |-> stats.successful_calls + (IF success THEN 1 ELSE 0),
             failed_calls |-> stats.failed_calls + (IF success THEN 0 ELSE 1),
             total_execution_time |-> time,
             average_execution_time |->
                 IF total > 0 THEN [num |-> time, den |-> total]
                 ELSE stats.average_execution_time]
    IN  Updated(stats.total_calls + 1, stats.total_execution_time + execution_time)

\* the empty registry of ToolRegistry.__init__
EmptyRegistry == [tools |-> [n \in {} |-> BaseTool(ToolMetadata("", "basic", FALSE, None, 0, FALSE))],
                  tool_keys |-> <<>>,
                  categories |-> [c \in Categories |-> <<>>],
                  rate_limiters |-> [n \in {} |-> [calls |-> 0, reset_time |-> None, limit |-> 0]]]

InSeq(x, s) == \E i \in 1..Len(s) : s[i] = x

\* register_tool keeping the tool a name is already registered with
register_tool_keep_first(reg, tool) ==
    IF tool.metadata.name \in DOMAIN reg.tools THEN reg
    ELSE [tools |-> (tool.metadata.name :> tool) @@ reg.tools,
          tool_keys |-> Append(reg.tool_keys, tool.metadata.name),
          categories |-> [reg.categories EXCEPT ![tool.metadata.category] =
                             Append(@, tool.metadata.name)],
          rate_limiters |->
              IF tool.metadata.rate_limit # None /\ tool.metadata.rate_limit # 0
              THEN (tool.metadata.name :> [calls |-> 0, reset_time |-> None,
                                           limit |-> tool.metadata.rate_limit])
                   @@ reg.rate_limiters
              ELSE reg.rate_limiters]

\* ToolRegistry.register_tool
register_tool(reg, tool) ==
    LET tool_name == tool.metadata.name
        category == tool.metadata.category
    IN  [tools |-> (tool_name :> tool) @@ reg.tools,
         tool_keys |-> IF tool_name \in DOMAIN reg.tools THEN reg.tool_keys
                       ELSE Append(reg.tool_keys, tool_name),
         categories |-> IF InSeq(tool_name, reg.categories[category]) THEN reg.categories
                        ELSE [reg.categories EXCEPT ![category] = Append(@, tool_name)],
         rate_limiters |->
             IF tool.metadata.rate_limit # None /\ tool.metadata.rate_limit # 0
             THEN (tool_name :> [calls |-> 0, reset_time |-> None,
                                 limit |-> tool.metadata.rate_limit]) @@ reg.rate_limiters
             ELSE reg.rate_limiters]

\* list.remove(x): the list without the first occurrence of x
RECURSIVE Remove(_, _)
Remove(s, x) ==
    IF s = <<>> THEN <<>>
    ELSE IF Head(s) = x THEN Tail(s)
    ELSE <<Head(s)>> \o Remove(Tail(s), x)

\* the dict without a key
Del(d, key) == [k \in DOMAIN d \ {key} |-> d[k]]

\* ToolRegistry.unregister_tool: the boolean returned and the registry
\* afterwards
unregister_tool(reg, tool_name) ==
    IF tool_name \notin DOMAIN reg.tools THEN [ok |-> FALSE, reg |-> reg]
    ELSE [ok |-> TRUE,
          reg |-> [tools |-> Del(reg.tools, tool_name),
                   tool_keys |-> Remove(reg.tool_keys, tool_name),
                   \* the list of the category of the tool registered now
                   categories |->
                       [reg.categories EXCEPT ![reg.tools[tool_name].metadata.category] =
                           IF InSeq(tool_name, @) THEN Remove(@, tool_name) ELSE @],
                   rate_limiters |->
                       IF tool_name \in DOMAIN reg.rate_limiters
                       THEN Del(reg.rate_limiters, tool_name)
                       ELSE reg.rate_limiters]]

\* ToolRegistry.reload_tools: the three tables are cleared
reload_tools(reg) ==
    [tools |-> EmptyRegistry.tools,
     tool_keys |-> <<>>,
     categories |-> [c \in DOMAIN reg.categories |-> <<>>],
     rate_limiters |-> EmptyRegistry.rate_limiters]

\* ToolRegistry.list_tools(enabled_only=True): the names of the definitions
RECURSIVE list_tools(_, _)
list_tools(tls, keys) ==
    IF keys = <<>> THEN <<>>
    ELSE IF tls[Head(keys)].metadata.enabled
         THEN <<Head(keys)>> \o list_tools(tls, Tail(keys))
         ELSE list_tools(tls, Tail(keys))

\* ToolRegistry.get_tool: the tool, or None
NoTool == [metadata |-> ToolMetadata("", "basic", FALSE, None, 0, FALSE),
           schema |-> [required |-> <<>>, properties |-> <<>>], stats |-> NewStats]
get_tool(tls, tool_name) == IF tool_name \in DOMAIN tls THEN tls[tool_name] ELSE NoTool

\* BaseTool.to_tool_definition
to_tool_definition(tool) == [name |-> tool.metadata.name, inputSchema |-> tool.schema]

\* ToolRegistry.list_tools(category=None, enabled_only): the definitions, in
\* the order of the dict
RECURSIVE tool_definitions(_, _, _)
tool_definitions(tls, keys, enabled_only) ==
    IF keys = <<>> THEN <<>>
    ELSE IF enabled_only /\ ~tls[Head(keys)].metadata.enabled
         THEN tool_definitions(tls, Tail(keys), enabled_only)
         ELSE <<to_tool_definition(tls[Head(keys)])>>
              \o tool_definitions(tls, Tail(keys), enabled_only)

\* _check_rate_limit comparing the count with > instead of >=
check_rate_limit_one_more(limiters, tool_name, t) ==
    IF tool_name \notin DOMAIN limiters THEN [ok |-> TRUE, limiters |-> limiters]
    ELSE LET Count(limiter) ==
                 IF limiter.calls > limiter.limit
                 THEN [ok |-> FALSE, limiters |-> [limiters EXCEPT ![tool_name] = limiter]]
                 ELSE [ok |-> TRUE,
                       limiters |-> [limiters EXCEPT ![tool_name] =
                                        [limiter EXCEPT !.calls = @ + 1]]]
             Reset(limiter) ==
                 Count(IF limiter.reset_time = None \/ t >= limiter.reset_time
                       THEN [limiter EXCEPT !.calls = 0, !.reset_time = t + Window]
                       ELSE limiter)
         IN  Reset(limiters[tool_name])

\* _check_rate_limit comparing the clock with > instead of >=: the window is
\* still open at the instant it ends
check_rate_limit_late_reset(limiters, tool_name, t) ==
    IF tool_name \notin DOMAIN limiters THEN [ok |-> TRUE, limiters |-> limiters]
    ELSE LET Count(limiter) ==
                 IF limiter.calls >= limiter.limit
                 THEN [ok |-> FALSE, limiters |-> [limiters EXCEPT ![tool_name] = limiter]]
                 ELSE [ok |-> TRUE,
                       limiters |-> [limiters EXCEPT ![tool_name] =
                                        [limiter EXCEPT !.calls = @ + 1]]]
             Reset(limiter) ==
                 Count(IF limiter.reset_time = None \/ t > limiter.reset_time
                       THEN [limiter EXCEPT !.calls = 0, !.reset_time = t + Window]
                       ELSE limiter)
         IN  Reset(limiters[tool_name])

\* _check_rate_limit opening windows of half a minute
check_rate_limit_half_window(limiters, tool_name, t) ==
    IF tool_name \notin DOMAIN limiters THEN [ok |-> TRUE, limiters |-> limiters]
    ELSE LET Count(limiter) ==
                 IF limiter.calls >= limiter.limit
                 THEN [ok |-> FALSE, limiters |-> [limiters EXCEPT ![tool_name] = limiter]]
                 ELSE [ok |-> TRUE,
                       limiters |-> [limiters EXCEPT ![tool_name] =
                                        [limiter EXCEPT !.calls = @ + 1]]]
             Reset(limiter) ==
                 Count(IF limiter.reset_time = None \/ t >= limiter.reset_time
                       THEN [limiter EXCEPT !.calls = 0,
                                            !.reset_time = t + (Window \div 2)]
                       ELSE limiter)
         IN  Reset(limiters[tool_name])

\* ToolRegistry._check_rate_limit at instant t: whether the call passes, and
\* the rate-limiter table afterwards
check_rate_limit(limiters, tool_name, t) ==
    IF tool_name \notin DOMAIN limiters THEN [ok |-> TRUE, limiters |-> limiters]
    ELSE LET \* the second half: compare the count with the limit, count the call
             Count(limiter) ==
                 IF limiter.calls >= limiter.limit
                 THEN [ok |-> FALSE, limiters |-> [limiters EXCEPT ![tool_name] = limiter]]
                 ELSE [ok |-> TRUE,
                       limiters |-> [limiters EXCEPT ![tool_name] =
                                        [limiter EXCEPT !.calls = @ + 1]]]
             \* the first half: open a new window if none is open or it is over
             Reset(limiter) ==
                 Count(IF limiter.reset_time = None \/ t >= limiter.reset_time
                       THEN [limiter EXCEPT !.calls = 0, !.reset_time = t + Window]
                       ELSE limiter)
         IN  Reset(limiters[tool_name])

\* ToolCallResult whose message leaves the tool name out
ToolCallResultUnnamed(isError, stage, name, field) ==
    [isError |-> isError, stage |-> stage, name |-> "", field |-> field]

\* ToolCallResult built without isError, which defaults to False
ToolCallResultDefault(isError, stage, name, field) ==
    [isError |-> FALSE, stage |-> stage, name |-> name, field |-> field]

\* ToolCallResult: the message is kept as its stage, the tool name and the
\* field it contains
ToolCallResult(isError, stage, name, field) ==
    [isError |-> isError, stage |-> stage, name |-> name, field |-> field]

\* outcomes of tool.execute under asyncio.wait_for
ExecResults == {"ok", "raise", "timeout"}

\* time.time() - start_time of an execution: a timeout lasts the tool's
\* timeout, the others end at once on the clock of the model
ExecutionTime(tool, ex) == IF ex = "timeout" THEN tool.metadata.timeout ELSE 0

\* the tools whose execute starts its work as tasks (asyncio.create_task) and
\* then awaits them one after the other, as connectivity_test does
SpawnsTasks == {"t2"}

\* asyncio.wait_for(tool.execute(arguments, context), timeout): the tools
\* with tasks still running when it is over.  On a timeout wait_for cancels
\* the coroutine of execute and waits until it has ended; the cancellation
\* reaches the one task execute is awaiting, the tasks it has created and not
\* yet awaited run on.
wait_for(tool_name, ex) ==
    IF ex = "timeout" /\ tool_name \in SpawnsTasks THEN {tool_name} ELSE {}

\* call_tool validating the arguments before it checks the rate limit
call_tool_validate_first(tls, limiters, tool_name, arguments, t, ex) ==
    LET Stop(lim, passed, stage, name, field) ==
            [tools |-> tls, rate_limiters |-> lim, executed |-> FALSE,
             passed |-> passed, elapsed |-> 0,
             result |-> ToolCallResult(TRUE, stage, name, field)]
        Execute(tool, lim, execution_time) ==
            [tools |-> [tls EXCEPT ![tool_name].stats =
                           update_stats(@, execution_time, ex = "ok")],
             rate_limiters |-> lim, executed |-> TRUE, passed |-> TRUE,
             elapsed |-> execution_time,
             result |-> CASE ex = "ok" -> ToolCallResult(FALSE, "ok", "", "")
                          [] ex = "timeout" -> ToolCallResult(TRUE, "timeout", tool_name, "")
                          [] OTHER -> ToolCallResult(TRUE, "failed", "", "")]
        Limit(tool, rl) ==
            IF ~rl.ok THEN Stop(rl.limiters, FALSE, "ratelimited", tool_name, "")
            ELSE Execute(tool, rl.limiters, ExecutionTime(tool, ex))
        Validate(tool, v) ==
            IF ~v.ok THEN Stop(limiters, FALSE, "invalid", "", v.field)
            ELSE Limit(tool, check_rate_limit(limiters, tool_name, t))
        Enabled(tool) ==
            IF ~tool.metadata.enabled THEN Stop(limiters, FALSE, "disabled", tool_name, "")
            ELSE Validate(tool, validate_arguments(tool.schema, arguments))
    IN  IF tool_name \notin DOMAIN tls
        THEN Stop(limiters, FALSE, "notfound", tool_name, "")
        ELSE Enabled(tls[tool_name])

\* ToolRegistry.call_tool at instant t, the execution ending as ex
call_tool(tls, limiters, tool_name, arguments, t, ex) ==
    LET \* an error result returned before execute is invoked
        Stop(lim, passed, stage, name, field) ==
            [tools |-> tls, rate_limiters |-> lim, executed |-> FALSE,
             passed |-> passed, elapsed |-> 0,
             result |-> ToolCallResult(TRUE, stage, name, field)]
        \* await asyncio.wait_for(tool.execute(arguments), timeout) and the
        \* update_stats of the try body and of both except clauses
        Execute(tool, lim, execution_time) ==
            [tools |-> [tls EXCEPT ![tool_name].stats =
                           update_stats(@, execution_time, ex = "ok")],
             rate_limiters |-> lim, executed |-> TRUE, passed |-> TRUE,
             elapsed |-> execution_time,
             result |-> CASE ex = "ok" -> ToolCallResult(FALSE, "ok", "", "")
                          [] ex = "timeout" -> ToolCallResult(TRUE, "timeout", tool_name, "")
                          [] OTHER -> ToolCallResult(TRUE, "failed", "", "")]
        \* tool.validate_arguments(arguments)
        Validate(tool, lim, v) ==
            IF ~v.ok THEN Stop(lim, TRUE, "invalid", "", v.field)
            ELSE Execute(tool, lim, ExecutionTime(tool, ex))
        \* self._check_rate_limit(tool_name)
        Limit(tool, rl) ==
            IF ~rl.ok THEN Stop(rl.limiters, FALSE, "ratelimited", tool_name, "")
            ELSE Validate(tool, rl.limiters, validate_arguments(tool.schema, arguments))
        \* tool.metadata.enabled
        Enabled(tool) ==
            IF ~tool.metadata.enabled THEN Stop(limiters, FALSE, "disabled", tool_name, "")
            ELSE Limit(tool, check_rate_limit(limiters, tool_name, t))
    IN  IF tool_name \notin DOMAIN tls
        THEN Stop(limiters, FALSE, "notfound", tool_name, "")
        ELSE Enabled(tls[tool_name])

(***************************************************************************)
(* Error taxonomy: core/error_handler.py                                   *)
(***************************************************************************)
\* an exception: its class name, whether it is a CogneeBaseException, and
\* the error_code a CogneeBaseException carries
Exc(type, cognee, code) == [type |-> type, cognee |-> cognee, code |-> code]
NoExc == Exc("", FALSE, 0)
\* CogneeBaseException(message): error_code left to its default
CogneeBaseExceptionDefault(code) == Exc("CogneeBaseException", TRUE, INTERNAL_ERROR)

\* CogneeBaseException(message, error_code)
CogneeBaseException(code) == Exc("CogneeBaseException", TRUE, code)
\* pydantic's ValidationError, raised by a model constructor
PydanticValidationError == Exc("ValidationError", FALSE, 0)
AttributeError == Exc("AttributeError", FALSE, 0)

\* ErrorHandler.__init__
NewErrorStats == [total_errors |-> 0,
                  error_types |-> [n \in {} |-> 0],
                  recent_errors |-> <<>>]

\* the last n elements of a list: list[-n:]
LastN(s, n) == IF Len(s) <= n THEN s ELSE SubSeq(s, Len(s) - n + 1, Len(s))

\* _update_error_stats keeping the oldest entries of the log, not the newest
update_error_stats_keep_oldest(stats, exception) ==
    LET error_type == exception.type
        types == IF error_type \in DOMAIN stats.error_types THEN stats.error_types
                 ELSE (error_type :> 0) @@ stats.error_types
        recent == Append(stats.recent_errors, error_type)
    IN  [total_errors |-> stats.total_errors + 1,
         error_types |-> [types EXCEPT ![error_type] = @ + 1],
         recent_errors |-> IF Len(recent) > RecentCap THEN SubSeq(recent, 1, RecentCap)
                           ELSE recent]

\* ErrorHandler._update_error_stats
update_error_stats(stats, exception) ==
    LET error_type == exception.type
        types == IF error_type \in DOMAIN stats.error_types THEN stats.error_types
                 ELSE (error_type :> 0) @@ stats.error_types
        recent == Append(stats.recent_errors, error_type)
    IN  [total_errors |-> stats.total_errors + 1,
         error_types |-> [types EXCEPT ![error_type] = @ + 1],
         recent_errors |-> IF Len(recent) > RecentCap THEN LastN(recent, RecentCap)
                           ELSE recent]

\* ErrorHandler._convert_standard_exception: error_mapping.get(type(exception))
convert_standard_exception(exception) ==
    CASE exception.type \in {"ValueError", "TypeError", "KeyError"} -> INVALID_PARAMS
      [] exception.type = "FileNotFoundError" -> RESOURCE_NOT_FOUND
      [] exception.type = "PermissionError" -> AUTHORIZATION_ERROR
      [] exception.type \in {"ConnectionError", "TimeoutError"} -> RESOURCE_UNAVAILABLE
      [] OTHER -> INTERNAL_ERROR

\* ErrorHandler.handle_exception: the statistics afterwards and the code of
\* the MCPError it returns
handle_exception(stats, exception) ==
    [stats |-> update_error_stats(stats, exception),
     code |-> IF exception.cognee THEN exception.code
              ELSE convert_standard_exception(exception)]

(***************************************************************************)
(* Input lines.                                                            *)
(***************************************************************************)
\* params of a message: shape "bad" is a JSON value that is not an object;
\* valid says whether the object satisfies the model its handler builds
\* from it; name is the tool name, the client capabilities, the uri or the
\* prompt name
Params(shape, valid, name, arguments) ==
    [shape |-> shape, valid |-> valid, name |-> name, arguments |-> arguments]
NoParams == Params("dict", FALSE, "", NoArgs)
BadParams == Params("bad", FALSE, "", NoArgs)

\* the argument objects the model sends to tools/call
ArgChoices == {[x |-> "int", y |-> "absent"], [x |-> "absent", y |-> "string"],
               [x |-> "string", y |-> "absent"], [x |-> "bool", y |-> "int"]}

ParamsFor(method) ==
    CASE method = "initialize" ->
           {Params("dict", TRUE, c, NoArgs) : c \in {"capsA", "capsB"}} \cup {NoParams}
      [] method = "tools/call" ->
           {Params("dict", TRUE, n, a) : n \in ToolNames \cup {UnknownTool}, a \in ArgChoices}
           \cup {NoParams}
      [] method = "resources/read" ->
           {Params("dict", TRUE, u, NoArgs) : u \in {"stats://tools", "bogus://"}}
      [] method = "prompts/get" ->
           {Params("dict", TRUE, u, NoArgs) : u \in {"analyze_data", "bogus"}}
      [] OTHER -> {NoParams}

\* a line of input.  kind: "malformed" is not JSON, "nonobject" is a JSON
\* value that is not an object, "object" is a JSON object; method_type is
\* "str", "absent" (no method key) or "int" (a number)
Line(kind, has_id, id, method_type, method, params) ==
    [kind |-> kind, has_id |-> has_id, id |-> id, method_type |-> method_type,
     method |-> method, params |-> params]
MalformedLine == Line("malformed", FALSE, IdNull, "absent", "", NoParams)
NonObjectLine == Line("nonobject", FALSE, IdNull, "absent", "", NoParams)

Methods == KnownMethods \cup {"notifications/initialized", "no/such"}

\* JSON objects with a method that is a string
MethodLines(has_id, ids, methods) ==
    UNION {{Line("object", has_id, i, "str", m, p) : i \in ids, p \in ParamsFor(m)} :
              m \in methods}

\* objects without an id key
Notifications ==
    {l \in MethodLines(FALSE, {IdNull}, {"initialize", "tools/call", "notifications/initialized"}) :
        l.params.valid \/ l.method = "notifications/initialized"}
    \cup {Line("object", FALSE, IdNull, t, "", NoParams) : t \in {"absent", "int"}}

\* objects with an id key that MCPRequest rejects whatever the build
InvalidRequests ==
    {l \in MethodLines(TRUE, {IdNull}, {"tools/list", "initialize"}) :
        l.params.name \in {"", "capsA"}}
    \cup {Line("object", TRUE, i, "absent", "", NoParams) : i \in RequestIds}
    \cup {Line("object", TRUE, IdInt("1"), "str", m, BadParams) :
            m \in {"initialize", "tools/call"}}

\* objects with an id key whose method is a number
NumberMethodRequests ==
    {Line("object", TRUE, i, "int", "7", NoParams) : i \in RequestIds \ {IdNull}}

\* well-formed requests, by method
Requests(methods) == MethodLines(TRUE, RequestIds \ {IdNull}, methods)
InitializeRequests == Requests({"initialize"})
ToolsListRequests == Requests({"tools/list"})
ToolsCallRequests == Requests({"tools/call"})
StaticRequests == Requests({"resources/list", "resources/read", "prompts/list", "prompts/get"})
UnknownMethodRequests == Requests({"no/such"})

\* the tools/call requests read among lines of every kind
WireCallLines ==
    {l \in ToolsCallRequests :
        \/ ~l.params.valid
        \/ l.params.name = "t1" /\ l.params.arguments.y = "absent"
        \/ l.params.name \in {"t2", UnknownTool} /\ l.params.arguments.x = "int"}

(***************************************************************************)
(* State.                                                                  *)
(***************************************************************************)
VARIABLES
    pydantic_v1,          \* the build: pydantic 1.x (TRUE) or 2.x (FALSE)
    pc,                   \* position of MCPServer.start
    initialized,          \* MCPServer._initialized
    running,              \* MCPServer._running
    client_capabilities,  \* MCPServer._client_capabilities
    request_count,        \* MCPServer._request_count
    error_count,          \* MCPServer._error_count
    authenticated,        \* AuthenticationManager.is_authenticated()
    tools,                \* ToolRegistry._tools, with each tool's stats
    tool_keys,            \* insertion order of ToolRegistry._tools
    categories,           \* ToolRegistry._categories
    rate_limiters,        \* ToolRegistry._rate_limiters
    error_stats,          \* ErrorHandler._error_stats of the server
    now,                  \* the clock, in seconds
    line,                 \* the line the loop read last
    returned,             \* what _handle_message did with it
    written,              \* what the loop wrote to stdout for it
    call,                 \* what call_tool did for it
    executions,           \* per tool, executions that succeeded and failed
    passes,               \* per tool, instants of the calls that passed the rate limit
    orphans,              \* tools with tasks still running that an execute left behind
    registered,           \* the tools given to register_tool, in order
    stdin,                \* the input stream: "open", or "eof" once it has ended
    logouts,              \* invocations of AuthenticationManager.logout
    signals,              \* termination signals received, shutdown tasks not yet run
    stream,               \* the exceptions an error handler is given, in order
    mcp_error,            \* the code of the MCPError handle_exception returned last
    guarded,              \* a call of a function wrapped by handle_errors
    retrying,             \* a call of a function wrapped by retry_on_error
    operation             \* the registry operation made last and what it returned

vars == <<pydantic_v1, pc, initialized, running, client_capabilities,
          request_count, error_count, authenticated, tools, tool_keys,
          categories, rate_limiters, error_stats, now, line, returned,
          written, call, executions, passes, orphans, registered, stdin,
          logouts, signals, stream, mcp_error, guarded, retrying, operation>>

registry_vars == <<tools, tool_keys, categories, rate_limiters>>

\* a registry operation: its name, the tool name and the enabled_only flag
\* it was given, and the boolean, the list of definitions or the statistics
\* it returned (ok is whether a tool or an outcome without error came back)
Operation(op, tool_name, enabled_only, ok, listing, stats) ==
    [op |-> op, name |-> tool_name, enabled_only |-> enabled_only, ok |-> ok,
     listing |-> listing, stats |-> stats]
NoOperation == Operation("", "", FALSE, FALSE, <<>>, NewStats)

\* no call of a wrapped function yet
NoGuarded == [called |-> FALSE]
NoRetrying == [called |-> FALSE]

\* no signal received, no shutdown task waiting to run
NoSignals == [received |-> 0, pending |-> 0]

(***************************************************************************)
(* Protocol envelopes: schemas/mcp_models.py                               *)
(***************************************************************************)
\* the result member of a response
Result(kind, outcome, listing) == [kind |-> kind, outcome |-> outcome, listing |-> listing]
NoOutcome == ToolCallResult(FALSE, "", "", "")
NoResult == Result("", NoOutcome, <<>>)

Response(id, has_error, code, result) ==
    [id |-> id, has_error |-> has_error, code |-> code, result |-> result]
NoResponse == Response(IdNull, FALSE, 0, NoResult)

\* the field as if it were declared Optional: None is accepted
UnionStrIntOptional(v1, id) ==
    IF v1 /\ id.t = "int" THEN [ok |-> TRUE, id |-> IdStr(id.v)]
    ELSE [ok |-> TRUE, id |-> id]

\* validation of a field declared Union[str, int] and not Optional: None is
\* rejected by both builds; pydantic 1.x tries str first and turns an
\* integer into its string, pydantic 2.x keeps the integer
UnionStrInt(v1, id) ==
    IF id.t = "null" THEN [ok |-> FALSE, id |-> id]
    ELSE IF v1 /\ id.t = "int" THEN [ok |-> TRUE, id |-> IdStr(id.v)]
    ELSE [ok |-> TRUE, id |-> id]

\* MCPResponse(id=..., result=... | error=...): the response, or the
\* ValidationError of the constructor
MCPResponse(id, has_error, code, result) ==
    LET Model(f) ==
            IF f.ok THEN [exc |-> NoExc, resp |-> Response(f.id, has_error, code, result)]
            ELSE [exc |-> PydanticValidationError, resp |-> NoResponse]
    IN  Model(UnionStrInt(pydantic_v1, id))

\* MCPServer._create_error_response
create_error_response(request_id, code) == MCPResponse(request_id, TRUE, code, NoResult)

\* MCPRequest(**data): the request, or the ValidationError of the constructor.
\* pydantic 1.x turns a number given for method into its string.
MCPRequest(data) ==
    LET Model(f, method_ok) ==
            IF f.ok /\ method_ok /\ data.params.shape = "dict"
            THEN [exc |-> NoExc, id |-> f.id, method |-> data.method, params |-> data.params]
            ELSE [exc |-> PydanticValidationError, id |-> data.id, method |-> "",
                  params |-> NoParams]
    IN  Model(UnionStrInt(pydantic_v1, data.id),
              data.method_type = "str" \/ (pydantic_v1 /\ data.method_type = "int"))

(***************************************************************************)
(* Request handlers: core/mcp_server.py                                    *)
(***************************************************************************)
\* the state a handler reads and writes
ServerState == [initialized |-> initialized, client_capabilities |-> client_capabilities,
                authenticated |-> authenticated, tools |-> tools,
                rate_limiters |-> rate_limiters]

\* what a tools/call did: whether call_tool was entered, for which tool, the
\* stage its outcome names, whether execute was invoked and how it ended,
\* whether the rate-limit stage was passed, the instant of the call,
\* whether authenticate() was invoked and whether it returned (auth_ok is
\* FALSE where it raised)
NoCall == [entered |-> FALSE, name |-> "", stage |-> "", executed |-> FALSE,
           ex |-> "", passed |-> FALSE, at |-> 0, authenticate |-> FALSE,
           auth_ok |-> TRUE, arguments |-> NoArgs, result |-> NoOutcome]

\* the guard left out
never_not_initialized(st) == FALSE

\* the guard of tools/list and tools/call: if not self._initialized
not_initialized(st) == ~st.initialized

\* what a handler does: the state afterwards, the exception it raises or the
\* result it returns, the time it took and the call_tool it made
Handled(st, exc, result, elapsed, c) ==
    [st |-> st, exc |-> exc, result |-> result, elapsed |-> elapsed, call |-> c]
Raises(st, exc) == Handled(st, exc, NoResult, 0, NoCall)
Returns(st, result) == Handled(st, NoExc, result, 0, NoCall)

\* _handle_initialize setting the flag before it validates the params
handle_initialize_flag_first(st, params) ==
    IF ~params.valid THEN Raises([st EXCEPT !.initialized = TRUE], PydanticValidationError)
    ELSE Returns([st EXCEPT !.client_capabilities = params.name, !.initialized = TRUE],
                 Result("initialize", NoOutcome, <<>>))

\* MCPServer._handle_initialize
handle_initialize(st, params) ==
    IF ~params.valid THEN Raises(st, PydanticValidationError)
    ELSE Returns([st EXCEPT !.client_capabilities = params.name, !.initialized = TRUE],
                 Result("initialize", NoOutcome, <<>>))

\* MCPServer._handle_tools_list
handle_tools_list(st, params) ==
    IF not_initialized(st) THEN Raises(st, CogneeBaseException(INTERNAL_ERROR))
    ELSE Returns(st, Result("tools/list", NoOutcome, list_tools(st.tools, tool_keys)))

\* MCPServer._handle_tools_call at instant t; ex is how the execution ends
\* and auth_ok whether authenticate() succeeds, where they are reached
handle_tools_call(st, params, t, ex, auth_ok) ==
    LET \* the ToolCallResult of call_tool, returned as the result
        Called(st1, needs_auth, r) ==
            Handled([st1 EXCEPT !.tools = r.tools, !.rate_limiters = r.rate_limiters],
                    NoExc, Result("tools/call", r.result, <<>>), r.elapsed,
                    [entered |-> TRUE, name |-> params.name, stage |-> r.result.stage,
                     executed |-> r.executed, ex |-> IF r.executed THEN ex ELSE "",
                     passed |-> r.passed, at |-> t, authenticate |-> needs_auth,
                     auth_ok |-> TRUE, arguments |-> params.arguments,
                     result |-> r.result])
        \* await self.tool_registry.call_tool(name, arguments)
        Call(st1, needs_auth) ==
            Called(st1, needs_auth,
                   call_tool(st1.tools, st1.rate_limiters, params.name,
                             params.arguments, t, ex))
        \* await self.auth_manager.authenticate(), where the tool needs it
        Authenticate(needs_auth) ==
            IF needs_auth /\ ~auth_ok
            THEN Handled(st, CogneeBaseException(AUTHENTICATION_ERROR), NoResult, 0,
                         [NoCall EXCEPT !.name = params.name, !.authenticate = TRUE,
                                        !.auth_ok = FALSE])
            ELSE Call(IF needs_auth THEN [st EXCEPT !.authenticated = TRUE] ELSE st,
                      needs_auth)
    IN  IF not_initialized(st) THEN Raises(st, CogneeBaseException(INTERNAL_ERROR))
        ELSE IF ~params.valid THEN Raises(st, PydanticValidationError)
        ELSE Authenticate(/\ params.name \in DOMAIN st.tools
                          /\ st.tools[params.name].metadata.requires_auth
                          /\ ~st.authenticated)

\* MCPServer._handle_resources_read
handle_resources_read(st, params) ==
    IF params.name \in {"config://settings", "stats://server", "stats://tools"}
    THEN Returns(st, Result("resources/read", NoOutcome, <<>>))
    ELSE Raises(st, CogneeBaseException(RESOURCE_NOT_FOUND))

\* MCPServer._handle_prompts_get
handle_prompts_get(st, params) ==
    IF params.name \in {"analyze_data", "create_summary"}
    THEN Returns(st, Result("prompts/get", NoOutcome, <<>>))
    ELSE Raises(st, CogneeBaseException(RESOURCE_NOT_FOUND))

\* what the dispatcher does with a message: the state and the error handler
\* afterwards, the response it returns or the exception that escapes, and
\* the increments of error_count
Dispatched(st, stats, exc, resp, errors, elapsed, c) ==
    [st |-> st, error_stats |-> stats, exc |-> exc, resp |-> resp,
     errors |-> errors, elapsed |-> elapsed, call |-> c]

\* MCPServer._handle_request
handle_request(st, stats, request, t, ex, auth_ok) ==
    LET \* the response sent back
        Send(h, stats1, r) == Dispatched(h.st, stats1, r.exc, r.resp, 0, h.elapsed, h.call)
        \* the try body's return and the two except clauses
        Respond(known, h, he) ==
            IF ~known THEN Send(h, stats, create_error_response(request.id, METHOD_NOT_FOUND))
            ELSE IF h.exc = NoExc THEN Send(h, stats, MCPResponse(request.id, FALSE, 0, h.result))
            ELSE IF h.exc.cognee THEN Send(h, stats, create_error_response(request.id, h.exc.code))
            ELSE Send(h, he.stats, create_error_response(request.id, he.code))
        Handle(known, h) == Respond(known, h, handle_exception(stats, h.exc))
        \* the dispatch on request.method
        Dispatch(method, params) ==
            Handle(method \in KnownMethods,
                   CASE method = "initialize" -> handle_initialize(st, params)
                     [] method = "tools/list" -> handle_tools_list(st, params)
                     [] method = "tools/call" -> handle_tools_call(st, params, t, ex, auth_ok)
                     [] method = "resources/list" -> Returns(st, Result(method, NoOutcome, <<>>))
                     [] method = "resources/read" -> handle_resources_read(st, params)
                     [] method = "prompts/list" -> Returns(st, Result(method, NoOutcome, <<>>))
                     [] method = "prompts/get" -> handle_prompts_get(st, params)
                     [] OTHER -> Returns(st, NoResult))
    IN  Dispatch(request.method, request.params)

\* MCPServer._handle_notification: the exception it raises, if any
handle_notification(data) ==
    IF data.kind = "object" /\ data.method_type # "int" THEN NoExc ELSE AttributeError

\* MCPServer._handle_message
handle_message(st, stats, message, t, ex, auth_ok) ==
    LET \* an error response built by an except clause
        Reply(stats1, errors, r) == Dispatched(st, stats1, r.exc, r.resp, errors, 0, NoCall)
        \* except Exception
        Failed(request_id, he) ==
            Reply(he.stats, 1, create_error_response(request_id, he.code))
        \* the try body after json.loads
        Route(notification, request, exc) ==
            IF exc # NoExc
            THEN Failed(IF message.kind = "object" /\ message.has_id
                        THEN message.id ELSE IdNull,
                        handle_exception(stats, exc))
            ELSE IF notification
            THEN Dispatched(st, stats, NoExc, NoResponse, 0, 0, NoCall)
            ELSE handle_request(st, stats, request, t, ex, auth_ok)
        Parsed(notification, request) ==
            Route(notification, request,
                  IF notification THEN handle_notification(message) ELSE request.exc)
    IN  IF message.kind = "malformed"
        THEN \* except json.JSONDecodeError
             Reply(stats, 0, create_error_response(IdNull, PARSE_ERROR))
        ELSE Parsed(message.kind = "nonobject" \/ ~message.has_id, MCPRequest(message))

(***************************************************************************)
(* Initial state: the registry as load_tools leaves it, the server as      *)
(* MCPServer.__init__ leaves it.                                           *)
(***************************************************************************)
\* rate limits the registered tools declare
RateLimits == {None, 1, 2}

\* the metadata the first tool may be registered with
ToolConfigs ==
    {ToolMetadata("t1", "basic", a, r, DefaultTimeout, e) :
        a \in BOOLEAN, r \in RateLimits, e \in BOOLEAN}

\* two of them: a limited tool behind authentication, a disabled open tool
WireConfigs ==
    {ToolMetadata("t1", "basic", TRUE, 1, DefaultTimeout, TRUE),
     ToolMetadata("t1", "basic", FALSE, None, DefaultTimeout, FALSE)}

\* the second tool: no authentication, one call per minute
SecondTool == ToolMetadata("t2", "graph", FALSE, 1, DefaultTimeout, TRUE)

\* the state after load_tools has registered the tools and MCPServer.__init__
\* has run, the first tool registered with one of configs
InitWith(configs) ==
    /\ pydantic_v1 \in BOOLEAN
    /\ pc = "created"
    /\ initialized = FALSE
    /\ running = FALSE
    /\ client_capabilities = ""
    /\ request_count = 0
    /\ error_count = 0
    /\ authenticated = FALSE
    /\ \E m \in configs :
         LET reg == register_tool(register_tool(EmptyRegistry, BaseTool(m)),
                                  BaseTool(SecondTool))
         IN  /\ tools = reg.tools
             /\ tool_keys = reg.tool_keys
             /\ categories = reg.categories
             /\ rate_limiters = reg.rate_limiters
             /\ registered = <<BaseTool(m), BaseTool(SecondTool)>>
    /\ error_stats = NewErrorStats
    /\ now = 0
    /\ line = MalformedLine
    /\ returned = [ret |-> "", resp |-> NoResponse]
    /\ written = <<>>
    /\ call = NoCall
    /\ executions = [n \in ToolNames |-> [ok |-> 0, failed |-> 0]]
    /\ passes = [n \in ToolNames |-> <<>>]
    /\ orphans = {}
    /\ stdin = "open"
    /\ logouts = 0
    /\ signals = NoSignals
    /\ stream = <<>>
    /\ mcp_error = 0
    /\ guarded = NoGuarded
    /\ retrying = NoRetrying
    /\ operation = NoOperation

Init == InitWith(WireConfigs)
InitTools == InitWith(ToolConfigs)

(***************************************************************************)
(* Actions.                                                                *)
(***************************************************************************)
\* MCPServer.start up to the message loop
start ==
    /\ pc = "created"
    /\ ~running
    /\ running' = TRUE
    /\ pc' = "serving"
    /\ UNCHANGED <<pydantic_v1, initialized, client_capabilities, request_count,
                   error_count, authenticated, tools, tool_keys, categories,
                   rate_limiters, error_stats, now, line, returned, written,
                   call, executions, passes, orphans, registered,
                   stdin, logouts, signals,
                   stream, mcp_error, guarded, retrying, operation>>

\* a loop that reads and handles the next line before it writes the response
\* to the line before
message_loop_write_behind(l, ex, auth_ok) ==
    \* the loop is waiting in readline, which it entered while running was true
    /\ pc = "serving"
    /\ stdin = "open"
    /\ \E d \in {handle_message(ServerState, error_stats, l, now, ex, auth_ok)} :
       \E ret \in {IF d.exc # NoExc THEN "raise"
                   ELSE IF d.resp = NoResponse THEN "none" ELSE "resp"} :
           /\ now + d.elapsed <= MaxNow
           \* ex and auth_ok are inputs only where the handler reaches them
           /\ ex # "ok" => d.call.executed
           /\ ~auth_ok => d.call.authenticate
           /\ request_count' = request_count + 1
           /\ error_count' = error_count + d.errors + (IF ret = "raise" THEN 1 ELSE 0)
           /\ initialized' = d.st.initialized
           /\ client_capabilities' = d.st.client_capabilities
           /\ authenticated' = d.st.authenticated
           /\ tools' = d.st.tools
           /\ rate_limiters' = d.st.rate_limiters
           /\ error_stats' = d.error_stats
           /\ now' = now + d.elapsed
           /\ line' = l
           /\ returned' = [ret |-> ret, resp |-> d.resp]
           /\ written' = IF returned.ret = "resp" THEN <<returned.resp>> ELSE <<>>
           /\ call' = d.call
           /\ executions' =
                IF d.call.executed
                THEN [executions EXCEPT ![d.call.name] =
                         IF d.call.ex = "ok" THEN [@ EXCEPT !.ok = @ + 1]
                         ELSE [@ EXCEPT !.failed = @ + 1]]
                ELSE executions
           /\ passes' =
                IF d.call.passed /\ d.call.name \in DOMAIN rate_limiters
                THEN [passes EXCEPT ![d.call.name] = Append(@, now)]
                ELSE passes
           /\ orphans' = orphans \cup wait_for(d.call.name, d.call.ex)
    \* while self._running: checked again only after the line has been handled
    /\ pc' = IF running THEN "serving" ELSE "finally"
    /\ UNCHANGED <<pydantic_v1, running, tool_keys, categories, registered,
                   stdin, logouts, signals,
                   stream, mcp_error, guarded, retrying, operation>>

\* one iteration of MCPServer._message_loop on a non-blank line: read,
\* _handle_message, write the response if there is one
message_loop(l, ex, auth_ok) ==
    \* the loop is waiting in readline, which it entered while running was true
    /\ pc = "serving"
    /\ stdin = "open"
    /\ \E d \in {handle_message(ServerState, error_stats, l, now, ex, auth_ok)} :
       \E ret \in {IF d.exc # NoExc THEN "raise"
                   ELSE IF d.resp = NoResponse THEN "none" ELSE "resp"} :
           /\ now + d.elapsed <= MaxNow
           \* ex and auth_ok are inputs only where the handler reaches them
           /\ ex # "ok" => d.call.executed
           /\ ~auth_ok => d.call.authenticate
           /\ request_count' = request_count + 1
           /\ error_count' = error_count + d.errors + (IF ret = "raise" THEN 1 ELSE 0)
           /\ initialized' = d.st.initialized
           /\ client_capabilities' = d.st.client_capabilities
           /\ authenticated' = d.st.authenticated
           /\ tools' = d.st.tools
           /\ rate_limiters' = d.st.rate_limiters
           /\ error_stats' = d.error_stats
           /\ now' = now + d.elapsed
           /\ line' = l
           /\ returned' = [ret |-> ret, resp |-> d.resp]
           /\ written' = IF ret = "resp" THEN <<d.resp>> ELSE <<>>
           /\ call' = d.call
           /\ executions' =
                IF d.call.executed
                THEN [executions EXCEPT ![d.call.name] =
                         IF d.call.ex = "ok" THEN [@ EXCEPT !.ok = @ + 1]
                         ELSE [@ EXCEPT !.failed = @ + 1]]
                ELSE executions
           /\ passes' =
                IF d.call.passed /\ d.call.name \in DOMAIN rate_limiters
                THEN [passes EXCEPT ![d.call.name] = Append(@, now)]
                ELSE passes
           /\ orphans' = orphans \cup wait_for(d.call.name, d.call.ex)
    \* while self._running: checked again only after the line has been handled
    /\ pc' = IF running THEN "serving" ELSE "finally"
    /\ UNCHANGED <<pydantic_v1, running, tool_keys, categories, registered,
                   stdin, logouts, signals,
                   stream, mcp_error, guarded, retrying, operation>>

\* the loop reads a line that is not a tools/call request
Read(lines) ==
    /\ request_count < MaxLines
    /\ \E l \in lines : message_loop(l, "ok", TRUE)

ReadMalformed == Read({MalformedLine})
ReadNonObject == Read({NonObjectLine})
ReadNotification == Read(Notifications)
ReadInvalidRequest == Read(InvalidRequests)
ReadNumberMethod == Read(NumberMethodRequests)
ReadInitialize == Read(InitializeRequests)
ReadToolsList == Read(ToolsListRequests)
ReadStatic == Read(StaticRequests)
ReadUnknownMethod == Read(UnknownMethodRequests)

\* the loop reads a tools/call request
ReadToolsCall ==
    /\ request_count < MaxLines
    /\ \E l \in WireCallLines, ex \in ExecResults, auth_ok \in BOOLEAN :
           message_loop(l, ex, auth_ok)

\* the lines of a client that initializes and calls tools: integer ids,
\* params of the right shape
ClientInitializeLines ==
    {l \in InitializeRequests : l.id = IdInt("1") /\ l.params.name = "capsA"}
ClientCallLines ==
    {l \in ToolsCallRequests :
        /\ l.id = IdInt("1")
        /\ l.params.valid
        /\ l.params.arguments \in {[x |-> "int", y |-> "absent"], [x |-> "absent", y |-> "string"]}
        /\ l.params.name = "t2" => l.params.arguments.x = "int"}

ClientInitializes ==
    /\ request_count < MaxRequests
    /\ ~initialized
    /\ \E l \in ClientInitializeLines : message_loop(l, "ok", TRUE)

ClientCallsTool ==
    /\ request_count < MaxRequests
    /\ \E l \in ClientCallLines, ex \in ExecResults, auth_ok \in BOOLEAN :
           message_loop(l, ex, auth_ok)

\* end of input: the loop breaks and start's finally runs shutdown, which
\* logs the auth manager out
ReadEOF ==
    /\ pc = "serving"
    /\ running
    /\ stdin = "open"
    /\ stdin' = "eof"
    /\ running' = FALSE
    /\ authenticated' = FALSE
    /\ logouts' = logouts + 1
    /\ pc' = "stopped"
    /\ UNCHANGED <<pydantic_v1, initialized, client_capabilities, request_count,
                   error_count, tools, tool_keys, categories, rate_limiters,
                   error_stats, now, line, returned, written, call, executions,
                   passes, orphans, registered,
                   signals,
                   stream, mcp_error, guarded, retrying, operation>>

\* MCPServer.shutdown with the guard on _running left out
shutdown_unguarded(is_running, is_authenticated, logged_out) ==
    [running |-> FALSE, authenticated |-> FALSE, logouts |-> logged_out + 1]

\* MCPServer.shutdown: nothing where the server is not running; otherwise
\* running is cleared and the auth manager logged out
shutdown(is_running, is_authenticated, logged_out) ==
    IF ~is_running
    THEN [running |-> is_running, authenticated |-> is_authenticated,
          logouts |-> logged_out]
    ELSE [running |-> FALSE, authenticated |-> FALSE, logouts |-> logged_out + 1]

\* the input stream ends
EndOfStream ==
    /\ pc \in {"created", "serving"}
    /\ stdin = "open"
    /\ stdin' = "eof"
    /\ UNCHANGED <<pydantic_v1, pc, initialized, running, client_capabilities,
                   request_count, error_count, authenticated, tools, tool_keys,
                   categories, rate_limiters, error_stats, now, line, returned,
                   written, call, executions, passes, orphans, registered,
                   logouts, signals,
                   stream, mcp_error, guarded, retrying, operation>>

\* readline returns the empty string: if not line: break
LoopBreaks ==
    /\ pc = "serving"
    /\ stdin = "eof"
    /\ pc' = "finally"
    /\ UNCHANGED <<pydantic_v1, initialized, running, client_capabilities,
                   request_count, error_count, authenticated, tools, tool_keys,
                   categories, rate_limiters, error_stats, now, line, returned,
                   written, call, executions, passes, orphans, registered,
                   stdin, logouts, signals,
                   stream, mcp_error, guarded, retrying, operation>>

\* await self.shutdown() at position at, going on to position next
Shutdown(at, next) ==
    /\ pc = at
    /\ \E s \in {shutdown(running, authenticated, logouts)} :
           /\ running' = s.running
           /\ authenticated' = s.authenticated
           /\ logouts' = s.logouts
    /\ pc' = next
    /\ UNCHANGED <<pydantic_v1, initialized, client_capabilities,
                   request_count, error_count, tools, tool_keys,
                   categories, rate_limiters, error_stats, now, line, returned,
                   written, call, executions, passes, orphans, registered,
                   stdin, signals,
                   stream, mcp_error, guarded, retrying, operation>>

\* the finally clause of MCPServer.start
StartFinally == Shutdown("finally", "returned")

\* the finally clause of start_server, after server.start() has returned
StartServerFinally == Shutdown("returned", "exited")

\* SIGINT, SIGTERM or SIGHUP: signal_handler creates a task for
\* server.shutdown()
Signal ==
    /\ pc \in {"serving", "executing", "finally", "returned"}
    /\ signals.received < MaxSignals
    /\ signals' = [received |-> signals.received + 1, pending |-> signals.pending + 1]
    /\ UNCHANGED <<pydantic_v1, pc, initialized, running, client_capabilities,
                   request_count, error_count, authenticated, tools, tool_keys,
                   categories, rate_limiters, error_stats, now, line, returned,
                   written, call, executions, passes, orphans, registered,
                   stdin, logouts,
                   stream, mcp_error, guarded, retrying, operation>>

\* the task of a signal handler runs server.shutdown(), while the loop waits
\* in readline, a handler awaits the execution of its tool, or start awaits
\* its own shutdown
ShutdownTask ==
    /\ pc \in {"serving", "executing", "finally", "returned"}
    /\ signals.pending > 0
    /\ signals' = [signals EXCEPT !.pending = @ - 1]
    /\ \E s \in {shutdown(running, authenticated, logouts)} :
           /\ running' = s.running
           /\ authenticated' = s.authenticated
           /\ logouts' = s.logouts
    /\ UNCHANGED <<pydantic_v1, pc, initialized, client_capabilities,
                   request_count, error_count, tools, tool_keys,
                   categories, rate_limiters, error_stats, now, line, returned,
                   written, call, executions, passes, orphans, registered,
                   stdin,
                   stream, mcp_error, guarded, retrying, operation>>

\* the loop reads a tools/call request and _handle_tools_call goes as far as
\* await asyncio.wait_for(tool.execute(arguments, context), timeout) in
\* call_tool: the request is counted, authenticate() has returned where it
\* was needed, the limiter has counted the call, and the coroutine is
\* suspended until the tool is done
ToolsCallAwaitsExecute ==
    /\ pc = "serving"
    /\ stdin = "open"
    /\ request_count < MaxLines
    /\ \E l \in WireCallLines, auth_ok \in BOOLEAN :
         \E d \in {handle_message(ServerState, error_stats, l, now, "ok", auth_ok)} :
             /\ d.call.executed
             /\ ~auth_ok => d.call.authenticate
             /\ request_count' = request_count + 1
             /\ authenticated' = d.st.authenticated
             /\ rate_limiters' = d.st.rate_limiters
             /\ line' = l
             /\ call' = [d.call EXCEPT !.stage = "executing", !.ex = "",
                                       !.result = NoOutcome]
             /\ passes' = IF d.call.passed /\ d.call.name \in DOMAIN rate_limiters
                          THEN [passes EXCEPT ![d.call.name] = Append(@, now)]
                          ELSE passes
    /\ pc' = "executing"
    /\ UNCHANGED <<pydantic_v1, initialized, running, client_capabilities,
                   error_count, tools, tool_keys, categories, error_stats, now,
                   returned, written, executions, orphans, registered,
                   stdin, logouts, signals,
                   stream, mcp_error, guarded, retrying, operation>>

\* wait_for returns or raises and the suspended handler goes on: update_stats,
\* the result, the response written by the loop.  What it does from here is
\* what the handler does for the line when the gates it has passed already
\* (the session, the limiter) are open.
ExecuteReturns ==
    /\ pc = "executing"
    /\ \E ex \in ExecResults :
         \E d \in {handle_message([ServerState EXCEPT
                                       !.authenticated = TRUE,
                                       !.rate_limiters = Del(rate_limiters, call.name)],
                                   error_stats, line, call.at, ex, TRUE)} :
         \E ret \in {IF d.exc # NoExc THEN "raise"
                     ELSE IF d.resp = NoResponse THEN "none" ELSE "resp"} :
             /\ now + d.elapsed <= MaxNow
             /\ error_count' = error_count + d.errors + (IF ret = "raise" THEN 1 ELSE 0)
             /\ tools' = d.st.tools
             /\ error_stats' = d.error_stats
             /\ now' = now + d.elapsed
             /\ returned' = [ret |-> ret, resp |-> d.resp]
             /\ written' = IF ret = "resp" THEN <<d.resp>> ELSE <<>>
             /\ call' = [d.call EXCEPT !.authenticate = call.authenticate]
             /\ executions' =
                    [executions EXCEPT ![call.name] =
                        IF ex = "ok" THEN [@ EXCEPT !.ok = @ + 1]
                        ELSE [@ EXCEPT !.failed = @ + 1]]
             /\ orphans' = orphans \cup wait_for(call.name, ex)
    \* while self._running: tested when the line has been handled
    /\ pc' = IF running THEN "serving" ELSE "finally"
    /\ UNCHANGED <<pydantic_v1, initialized, running, client_capabilities,
                   request_count, authenticated, tool_keys, categories,
                   rate_limiters, line, passes, registered,
                   stdin, logouts, signals,
                   stream, mcp_error, guarded, retrying, operation>>

\* steps of the clock
TickSteps == {Window}

\* time passes between two lines
Tick ==
    /\ pc = "serving"
    /\ \E d \in TickSteps : now + d <= MaxNow /\ now' = now + d
    /\ UNCHANGED <<pydantic_v1, pc, initialized, running, client_capabilities,
                   request_count, error_count, authenticated, tools, tool_keys,
                   categories, rate_limiters, error_stats, line, returned,
                   written, call, executions, passes, orphans, registered,
                   stdin, logouts, signals,
                   stream, mcp_error, guarded, retrying, operation>>

\* AuthToken.is_expired becomes true: the current token reaches expires_at
TokenExpires ==
    /\ pc = "serving"
    /\ authenticated
    /\ authenticated' = FALSE
    /\ UNCHANGED <<pydantic_v1, pc, initialized, running, client_capabilities,
                   request_count, error_count, tools, tool_keys, categories,
                   rate_limiters, error_stats, now, line, returned, written,
                   call, executions, passes, orphans, registered,
                   stdin, logouts, signals,
                   stream, mcp_error, guarded, retrying, operation>>

\* a task that a timed out execute left behind runs to its end, between
\* two lines of the message loop
OrphanTaskRuns ==
    /\ pc = "serving"
    /\ \E n \in orphans : orphans' = orphans \ {n}
    /\ UNCHANGED <<pydantic_v1, pc, initialized, running, client_capabilities,
                   request_count, error_count, authenticated, tools, tool_keys,
                   categories, rate_limiters, error_stats, now, line, returned,
                   written, call, executions, passes, registered,
                   stdin, logouts, signals,
                   stream, mcp_error, guarded, retrying, operation>>

\* a second input schema, for tools that differ from the others by it
\* disable_tool replacing the statistics of the tool by fresh ones
disable_tool_fresh_stats(tls, tool_name) ==
    IF tool_name \in DOMAIN tls
    THEN [ok |-> TRUE, tools |-> [tls EXCEPT ![tool_name].metadata.enabled = FALSE,
                                             ![tool_name].stats = NewStats]]
    ELSE [ok |-> FALSE, tools |-> tls]

\* ToolRegistry.enable_tool: the boolean returned and the tools afterwards
enable_tool(tls, tool_name) ==
    IF tool_name \in DOMAIN tls
    THEN [ok |-> TRUE, tools |-> [tls EXCEPT ![tool_name].metadata.enabled = TRUE]]
    ELSE [ok |-> FALSE, tools |-> tls]

\* ToolRegistry.disable_tool
disable_tool(tls, tool_name) ==
    IF tool_name \in DOMAIN tls
    THEN [ok |-> TRUE, tools |-> [tls EXCEPT ![tool_name].metadata.enabled = FALSE]]
    ELSE [ok |-> FALSE, tools |-> tls]

\* ToolRegistry.get_tool_stats(tool_name): the "stats" of tool.get_stats(), a
\* copy of the counters of the instance registered under the name; found is
\* FALSE where the empty dict is returned
get_tool_stats(tls, tool_name) ==
    IF tool_name \in DOMAIN tls
    THEN [found |-> TRUE, stats |-> tls[tool_name].stats]
    ELSE [found |-> FALSE, stats |-> NewStats]

OtherInputSchema == [required |-> <<"y">>, properties |-> << <<"y", "string">> >>]

\* the tools given to register_tool on an empty registry
LoadableTools ==
    {[BaseTool(ToolMetadata(n, c, FALSE, r, DefaultTimeout, e)) EXCEPT !.schema = sch] :
        n \in ToolNames, c \in Categories, r \in {None, 1}, e \in BOOLEAN,
        sch \in {ToolInputSchema, OtherInputSchema}}

\* the state after ToolRegistry.__init__, before any tool is loaded
InitRegistry ==
    /\ pydantic_v1 \in BOOLEAN
    /\ pc = "loading"
    /\ initialized = FALSE
    /\ running = FALSE
    /\ client_capabilities = ""
    /\ request_count = 0
    /\ error_count = 0
    /\ authenticated = FALSE
    /\ tools = EmptyRegistry.tools
    /\ tool_keys = EmptyRegistry.tool_keys
    /\ categories = EmptyRegistry.categories
    /\ rate_limiters = EmptyRegistry.rate_limiters
    /\ error_stats = NewErrorStats
    /\ now = 0
    /\ line = MalformedLine
    /\ returned = [ret |-> "", resp |-> NoResponse]
    /\ written = <<>>
    /\ call = NoCall
    /\ executions = [n \in ToolNames |-> [ok |-> 0, failed |-> 0]]
    /\ passes = [n \in ToolNames |-> <<>>]
    /\ orphans = {}
    /\ stdin = "open"
    /\ logouts = 0
    /\ signals = NoSignals
    /\ stream = <<>>
    /\ mcp_error = 0
    /\ guarded = NoGuarded
    /\ retrying = NoRetrying
    /\ operation = NoOperation
    /\ registered = <<>>

\* registry.register_tool(tool), as load_tools does for each tool class
RegisterTool ==
    /\ pc = "loading"
    /\ Len(registered) < MaxRegistrations
    /\ \E tool \in LoadableTools :
         \E reg \in {register_tool([tools |-> tools, tool_keys |-> tool_keys,
                                    categories |-> categories,
                                    rate_limiters |-> rate_limiters], tool)} :
             /\ tools' = reg.tools
             /\ tool_keys' = reg.tool_keys
             /\ categories' = reg.categories
             /\ rate_limiters' = reg.rate_limiters
             /\ registered' = Append(registered, tool)
    /\ UNCHANGED <<pydantic_v1, pc, initialized, running, client_capabilities,
                   request_count, error_count, authenticated, error_stats, now,
                   line, returned, written, call, executions, passes, orphans,
                   stdin, logouts, signals,
                   stream, mcp_error, guarded, retrying, operation>>

\* registry.unregister_tool(name)
UnregisterTool ==
    /\ pc = "loading"
    /\ \E tool_name \in ToolNames :
         \E r \in {unregister_tool([tools |-> tools, tool_keys |-> tool_keys,
                                    categories |-> categories,
                                    rate_limiters |-> rate_limiters], tool_name)} :
             /\ tools' = r.reg.tools
             /\ tool_keys' = r.reg.tool_keys
             /\ categories' = r.reg.categories
             /\ rate_limiters' = r.reg.rate_limiters
             /\ operation' = Operation("unregister", tool_name, FALSE, r.ok, <<>>,
                                       NewStats)
    /\ UNCHANGED <<pydantic_v1, pc, initialized, running, client_capabilities,
                   request_count, error_count, authenticated, error_stats, now,
                   line, returned, written, call, executions, passes, orphans,
                   registered, stdin, logouts, signals,
                   stream, mcp_error, guarded, retrying>>

\* registry.reload_tools()
ReloadTools ==
    /\ pc = "loading"
    /\ \E reg \in {reload_tools([tools |-> tools, tool_keys |-> tool_keys,
                                 categories |-> categories,
                                 rate_limiters |-> rate_limiters])} :
             /\ tools' = reg.tools
             /\ tool_keys' = reg.tool_keys
             /\ categories' = reg.categories
             /\ rate_limiters' = reg.rate_limiters
             /\ operation' = Operation("reload", "", FALSE, TRUE, <<>>, NewStats)
    /\ UNCHANGED <<pydantic_v1, pc, initialized, running, client_capabilities,
                   request_count, error_count, authenticated, error_stats, now,
                   line, returned, written, call, executions, passes, orphans,
                   registered, stdin, logouts, signals,
                   stream, mcp_error, guarded, retrying>>

\* the types a schema declares for a property
DeclaredTypes == {"string", "number", "boolean", "array", "object"}

\* the input schemas of the tools the registry is called for
DeclaredSchemas ==
    {[required |-> req, properties |-> << <<"x", tx>>, <<"y", ty>> >>] :
        req \in {<<>>, <<"x">>, <<"y">>, <<"x", "y">>},
        tx \in DeclaredTypes, ty \in {"string", "number"}}

\* the tools the registry is called for
CallableTools ==
    {[BaseTool(ToolMetadata("t1", "basic", FALSE, r, DefaultTimeout, e))
         EXCEPT !.schema = sch] :
        r \in {None, 1}, e \in BOOLEAN, sch \in DeclaredSchemas}

\* the argument objects given to call_tool: x of any JSON type or absent
CallArguments ==
    {[x |-> vx, y |-> vy] : vx \in JsonTypes \cup {"absent"},
                            vy \in {"absent", "string", "int"}}

\* a registry holding one tool, before any call
InitCalls ==
    /\ pydantic_v1 \in BOOLEAN
    /\ pc = "calling"
    /\ initialized = FALSE
    /\ running = FALSE
    /\ client_capabilities = ""
    /\ request_count = 0
    /\ error_count = 0
    /\ authenticated = FALSE
    /\ \E tool \in CallableTools :
         \E reg \in {register_tool(EmptyRegistry, tool)} :
             /\ tools = reg.tools
             /\ tool_keys = reg.tool_keys
             /\ categories = reg.categories
             /\ rate_limiters = reg.rate_limiters
             /\ registered = <<tool>>
    /\ error_stats = NewErrorStats
    /\ now = 0
    /\ line = MalformedLine
    /\ returned = [ret |-> "", resp |-> NoResponse]
    /\ written = <<>>
    /\ call = NoCall
    /\ executions = [n \in ToolNames |-> [ok |-> 0, failed |-> 0]]
    /\ passes = [n \in ToolNames |-> <<>>]
    /\ orphans = {}
    /\ stdin = "open"
    /\ logouts = 0
    /\ signals = NoSignals
    /\ stream = <<>>
    /\ mcp_error = 0
    /\ guarded = NoGuarded
    /\ retrying = NoRetrying
    /\ operation = NoOperation

\* await registry.call_tool(name, arguments), for arguments and an end of
\* the execution out of the given ones
CallToolWith(position, argument_choices, execution_choices) ==
    /\ pc = position
    /\ \E tool_name \in ToolNames, arguments \in argument_choices,
          ex \in execution_choices :
         \E r \in {call_tool(tools, rate_limiters, tool_name, arguments, now, ex)} :
             /\ \A n \in DOMAIN r.tools : r.tools[n].stats.total_calls <= MaxCalls
             /\ now + r.elapsed <= MaxNow
             \* ex is an input only where execute is reached
             /\ ex # "ok" => r.executed
             /\ now' = now + r.elapsed
             /\ tools' = r.tools
             /\ rate_limiters' = r.rate_limiters
             /\ call' = [entered |-> TRUE, name |-> tool_name,
                         stage |-> r.result.stage, executed |-> r.executed,
                         ex |-> IF r.executed THEN ex ELSE "", passed |-> r.passed,
                         at |-> now, authenticate |-> FALSE, auth_ok |-> TRUE,
                         arguments |-> arguments, result |-> r.result]
             /\ executions' =
                    IF r.executed
                    THEN [executions EXCEPT ![tool_name] =
                             IF ex = "ok" THEN [@ EXCEPT !.ok = @ + 1]
                             ELSE [@ EXCEPT !.failed = @ + 1]]
                    ELSE executions
             /\ passes' = IF r.passed /\ tool_name \in DOMAIN rate_limiters
                          THEN [passes EXCEPT ![tool_name] = Append(@, now)]
                          ELSE passes
             /\ orphans' = orphans \cup wait_for(tool_name, IF r.executed THEN ex ELSE "")
             /\ operation' = Operation("call", tool_name, FALSE, ~r.result.isError, <<>>, NewStats)
    /\ UNCHANGED <<pydantic_v1, pc, initialized, running, client_capabilities,
                   request_count, error_count, authenticated, tool_keys, categories,
                   error_stats, line, returned, written, registered,
                   stdin, logouts, signals,
                   stream, mcp_error, guarded, retrying>>

CallTool ==
    /\ \A n \in DOMAIN tools : tools[n].stats.total_calls < MaxCalls
    /\ CallToolWith("calling", CallArguments, ExecResults)

\* the tool instances a registry in use is given: instances of one tool
\* class, without a rate limit or with one of 0 or 1 calls a minute, enabled
\* or not
OperatedTools ==
    {BaseTool(ToolMetadata("t1", "basic", FALSE, r, DefaultTimeout, e)) :
        r \in {None, 0, 1}, e \in BOOLEAN}

\* the argument objects of the calls: valid ones and ones lacking x
OperationArguments == {[x |-> "int", y |-> "absent"], NoArgs}

\* a registry holding one tool, operated on by its owner
InitOperations ==
    /\ pydantic_v1 \in BOOLEAN
    /\ pc = "operating"
    /\ initialized = FALSE
    /\ running = FALSE
    /\ client_capabilities = ""
    /\ request_count = 0
    /\ error_count = 0
    /\ authenticated = FALSE
    /\ now = 0
    /\ line = MalformedLine
    /\ returned = [ret |-> "", resp |-> NoResponse]
    /\ written = <<>>
    /\ call = NoCall
    /\ executions = [n \in ToolNames |-> [ok |-> 0, failed |-> 0]]
    /\ passes = [n \in ToolNames |-> <<>>]
    /\ orphans = {}
    /\ stdin = "open"
    /\ logouts = 0
    /\ signals = NoSignals
    /\ \E tool \in OperatedTools :
         \E reg \in {register_tool(EmptyRegistry, tool)} :
             /\ tools = reg.tools
             /\ tool_keys = reg.tool_keys
             /\ categories = reg.categories
             /\ rate_limiters = reg.rate_limiters
             /\ registered = <<tool>>
    /\ error_stats = NewErrorStats
    /\ stream = <<>>
    /\ mcp_error = 0
    /\ guarded = NoGuarded
    /\ retrying = NoRetrying
    /\ operation = NoOperation

\* await registry.call_tool(name, arguments) on the registry in use
OperationCall == CallToolWith("operating", OperationArguments, {"ok", "raise"})

\* registry.enable_tool(name)
EnableTool ==
    /\ pc = "operating"
    /\ \E tool_name \in ToolNames :
         \E r \in {enable_tool(tools, tool_name)} :
             /\ tools' = r.tools
             /\ operation' = Operation("enable", tool_name, FALSE, r.ok, <<>>, NewStats)
    /\ UNCHANGED <<pydantic_v1, pc, initialized, running, client_capabilities,
                   request_count, error_count, authenticated, tool_keys, categories,
                   rate_limiters, error_stats, now, line, returned, written, call,
                   executions, passes, orphans, registered, stdin, logouts, signals,
                   stream, mcp_error, guarded, retrying>>

\* registry.disable_tool(name)
DisableTool ==
    /\ pc = "operating"
    /\ \E tool_name \in ToolNames :
         \E r \in {disable_tool(tools, tool_name)} :
             /\ tools' = r.tools
             /\ operation' = Operation("disable", tool_name, FALSE, r.ok, <<>>, NewStats)
    /\ UNCHANGED <<pydantic_v1, pc, initialized, running, client_capabilities,
                   request_count, error_count, authenticated, tool_keys, categories,
                   rate_limiters, error_stats, now, line, returned, written, call,
                   executions, passes, orphans, registered, stdin, logouts, signals,
                   stream, mcp_error, guarded, retrying>>

\* registry.list_tools(enabled_only=...)
ListTools ==
    /\ pc = "operating"
    /\ \E enabled_only \in BOOLEAN :
         operation' = Operation("list", "", enabled_only, TRUE,
                                tool_definitions(tools, tool_keys, enabled_only),
                                NewStats)
    /\ UNCHANGED <<pydantic_v1, pc, initialized, running, client_capabilities,
                   request_count, error_count, authenticated, tools, tool_keys,
                   categories, rate_limiters, error_stats, now, line, returned,
                   written, call, executions, passes, orphans, registered, stdin,
                   logouts, signals, stream, mcp_error, guarded, retrying>>

\* registry.get_tool(name)
GetTool ==
    /\ pc = "operating"
    /\ \E tool_name \in ToolNames :
         operation' = Operation("get", tool_name, FALSE,
                                get_tool(tools, tool_name) # NoTool, <<>>, NewStats)
    /\ UNCHANGED <<pydantic_v1, pc, initialized, running, client_capabilities,
                   request_count, error_count, authenticated, tools, tool_keys,
                   categories, rate_limiters, error_stats, now, line, returned,
                   written, call, executions, passes, orphans, registered, stdin,
                   logouts, signals, stream, mcp_error, guarded, retrying>>

\* registry.get_tool_stats(name)
GetToolStats ==
    /\ pc = "operating"
    /\ \E tool_name \in ToolNames :
         \E r \in {get_tool_stats(tools, tool_name)} :
             operation' = Operation("stats", tool_name, FALSE, r.found, <<>>, r.stats)
    /\ UNCHANGED <<pydantic_v1, pc, initialized, running, client_capabilities,
                   request_count, error_count, authenticated, tools, tool_keys,
                   categories, rate_limiters, error_stats, now, line, returned,
                   written, call, executions, passes, orphans, registered, stdin,
                   logouts, signals, stream, mcp_error, guarded, retrying>>

\* register_tool_class(tool_class) for the class registered first:
\* tool_class() makes a new instance, with the metadata of the class and
\* statistics of its own, which registry.register_tool puts under the name
RegisterToolClass ==
    /\ pc = "operating"
    /\ Len(registered) < MaxRegistrations
    /\ \E tool \in {registered[1]} :
         \E reg \in {register_tool([tools |-> tools, tool_keys |-> tool_keys,
                                    categories |-> categories,
                                    rate_limiters |-> rate_limiters], tool)} :
             /\ tools' = reg.tools
             /\ tool_keys' = reg.tool_keys
             /\ categories' = reg.categories
             /\ rate_limiters' = reg.rate_limiters
             /\ registered' = Append(registered, tool)
             /\ operation' = Operation("register", tool.metadata.name, FALSE, TRUE,
                                       <<>>, NewStats)
    /\ UNCHANGED <<pydantic_v1, pc, initialized, running, client_capabilities,
                   request_count, error_count, authenticated, error_stats, now,
                   line, returned, written, call, executions, passes, orphans,
                   stdin, logouts, signals, stream, mcp_error, guarded, retrying>>

\* the tools a limiter is watched for: enabled, one or two calls a minute
LimitedTools ==
    {BaseTool(ToolMetadata("t1", "basic", FALSE, r, DefaultTimeout, TRUE)) : r \in {1, 2}}

\* seconds between two instants at which the registry is called
ElapseStep == 10

\* a registry holding one rate-limited tool
InitLimiter ==
    /\ pydantic_v1 \in BOOLEAN
    /\ pc = "limiting"
    /\ initialized = FALSE
    /\ running = FALSE
    /\ client_capabilities = ""
    /\ request_count = 0
    /\ error_count = 0
    /\ authenticated = FALSE
    /\ now = 0
    /\ line = MalformedLine
    /\ returned = [ret |-> "", resp |-> NoResponse]
    /\ written = <<>>
    /\ call = NoCall
    /\ executions = [n \in ToolNames |-> [ok |-> 0, failed |-> 0]]
    /\ passes = [n \in ToolNames |-> <<>>]
    /\ orphans = {}
    /\ stdin = "open"
    /\ logouts = 0
    /\ signals = NoSignals
    /\ \E tool \in LimitedTools :
         \E reg \in {register_tool(EmptyRegistry, tool)} :
             /\ tools = reg.tools
             /\ tool_keys = reg.tool_keys
             /\ categories = reg.categories
             /\ rate_limiters = reg.rate_limiters
             /\ registered = <<tool>>
    /\ error_stats = NewErrorStats
    /\ stream = <<>>
    /\ mcp_error = 0
    /\ guarded = NoGuarded
    /\ retrying = NoRetrying
    /\ operation = NoOperation

\* await registry.call_tool(name, arguments) on the rate-limited tool
LimitedCall == CallToolWith("limiting", OperationArguments, {"ok"})

\* time passes between two calls: datetime.utcnow() is later
Elapse ==
    /\ pc = "limiting"
    /\ now + ElapseStep <= MaxNow
    /\ now' = now + ElapseStep
    /\ UNCHANGED <<pydantic_v1, pc, initialized, running, client_capabilities,
                   request_count, error_count, authenticated, tools, tool_keys,
                   categories, rate_limiters, error_stats, line, returned,
                   written, call, executions, passes, orphans, registered,
                   stdin, logouts, signals,
                   stream, mcp_error, guarded, retrying, operation>>

Next ==
    \/ start
    \/ ReadMalformed
    \/ ReadNonObject
    \/ ReadNotification
    \/ ReadInvalidRequest
    \/ ReadNumberMethod
    \/ ReadInitialize
    \/ ReadToolsList
    \/ ReadToolsCall
    \/ ReadStatic
    \/ ReadUnknownMethod
    \/ ReadEOF
    \/ Tick
    \/ TokenExpires
    \/ OrphanTaskRuns

Spec == Init /\ [][Next]_vars

\* the server with a client that initializes and then calls tools
NextTools ==
    \/ start
    \/ ClientInitializes
    \/ ClientCallsTool
    \/ ReadEOF
    \/ Tick
    \/ TokenExpires
    \/ OrphanTaskRuns

SpecTools == InitTools /\ [][NextTools]_vars

\* the registry while the tools are loaded
NextRegistry == RegisterTool

\* the registry in use: calls and the operations of its owner
NextOperations ==
    \/ OperationCall
    \/ EnableTool
    \/ DisableTool
    \/ ListTools
    \/ GetTool
    \/ GetToolStats
    \/ RegisterToolClass

SpecOperations == InitOperations /\ [][NextOperations]_vars

\* the registry as tools are registered, unregistered and reloaded
NextMaintenance ==
    \/ RegisterTool
    \/ UnregisterTool
    \/ ReloadTools

SpecMaintenance == InitRegistry /\ [][NextMaintenance]_vars

\* a rate-limited tool called as time passes
NextLimiter ==
    \/ LimitedCall
    \/ Elapse

SpecLimiter == InitLimiter /\ [][NextLimiter]_vars

SpecRegistry == InitRegistry /\ [][NextRegistry]_vars

\* the classes of the standard exceptions an error handler is given: the
\* seven of error_mapping, three subclasses of them (pydantic's
\* ValidationError and json's JSONDecodeError are ValueErrors, a
\* ConnectionRefusedError is a ConnectionError) and one of no mapped kind
StandardTypes ==
    {"ValueError", "TypeError", "KeyError", "FileNotFoundError", "PermissionError",
     "ConnectionError", "TimeoutError", "ValidationError", "JSONDecodeError",
     "ConnectionRefusedError", "RuntimeError"}

\* the exceptions an error handler is given
RaisedExceptions ==
    {Exc(t, FALSE, 0) : t \in StandardTypes}
    \cup {CogneeBaseException(AUTHENTICATION_ERROR)}

\* a stream of exceptions: b at every period-th place, a elsewhere
Stream(a, b, period) ==
    [i \in 1..MaxErrors |-> IF i % period = 0 THEN b ELSE a]
Streams ==
    {Stream(a, b, period) :
        a \in RaisedExceptions,
        b \in {Exc("ValueError", FALSE, 0), CogneeBaseException(AUTHENTICATION_ERROR)},
        period \in {2, 3}}

\* the variables of the server and of the registry, for a program that uses
\* neither
NoServer(position) ==
    /\ pydantic_v1 \in BOOLEAN
    /\ pc = position
    /\ initialized = FALSE
    /\ running = FALSE
    /\ client_capabilities = ""
    /\ request_count = 0
    /\ error_count = 0
    /\ authenticated = FALSE
    /\ tools = EmptyRegistry.tools
    /\ tool_keys = EmptyRegistry.tool_keys
    /\ categories = EmptyRegistry.categories
    /\ rate_limiters = EmptyRegistry.rate_limiters
    /\ now = 0
    /\ line = MalformedLine
    /\ returned = [ret |-> "", resp |-> NoResponse]
    /\ written = <<>>
    /\ call = NoCall
    /\ executions = [n \in ToolNames |-> [ok |-> 0, failed |-> 0]]
    /\ passes = [n \in ToolNames |-> <<>>]
    /\ orphans = {}
    /\ registered = <<>>
    /\ stdin = "open"
    /\ logouts = 0
    /\ signals = NoSignals

\* a new ErrorHandler and the exceptions it will be given
InitErrors ==
    /\ NoServer("handling")
    /\ error_stats = NewErrorStats
    /\ stream \in Streams
    /\ mcp_error = 0
    /\ guarded = NoGuarded
    /\ retrying = NoRetrying
    /\ operation = NoOperation

\* error_handler.handle_exception(e) for the next exception of the stream
HandleException ==
    /\ pc = "handling"
    /\ error_stats.total_errors < Len(stream)
    /\ \E h \in {handle_exception(error_stats, stream[error_stats.total_errors + 1])} :
           /\ error_stats' = h.stats
           /\ mcp_error' = h.code
    /\ UNCHANGED <<pydantic_v1, pc, initialized, running, client_capabilities,
                   request_count, error_count, authenticated, tools, tool_keys,
                   categories, rate_limiters, now, line, returned, written, call,
                   executions, passes, orphans, registered, stdin, logouts,
                   signals, stream, guarded, retrying, operation>>

\* values given as default_return: None (nothing supplied), the falsy
\* False, 0, '' and [], and the truthy True, 'n/a' and [1]
DefaultReturns == {"None", "False", "0", "''", "[]", "True", "'n/a'", "[1]"}

\* bool(value)
Truthy(value) == value \in {"True", "'n/a'", "[1]"}

\* the dict {"error": mcp_error.dict()} a wrapper returns
ErrorDict == "{'error': ...}"

\* what the wrapped function does when it is called: it returns a value or
\* raises an exception
FunctionReturns == [raises |-> FALSE, value |-> "value", exc |-> NoExc]
FunctionRaises(e) == [raises |-> TRUE, value |-> "", exc |-> e]
FunctionOutcomes == {FunctionReturns, FunctionRaises(Exc("ValueError", FALSE, 0))}

\* the wrapper made by handle_errors(error_handler, reraise, default_return)
\* around a function that ends as outcome: the statistics of the given
\* handler afterwards (a missing handler is replaced by a new ErrorHandler,
\* whose statistics nobody keeps), and what the wrapper returns or raises
handle_errors(stats, has_handler, reraise, default_return, outcome) ==
    IF ~outcome.raises
    THEN [stats |-> stats, raised |-> FALSE, value |-> outcome.value, exc |-> NoExc]
    ELSE [stats |-> IF has_handler THEN handle_exception(stats, outcome.exc).stats
                    ELSE stats,
          raised |-> reraise,
          \* return default_return or {"error": mcp_error.dict()}
          value |-> IF reraise THEN ""
                    ELSE IF default_return # "None" /\ Truthy(default_return)
                         THEN default_return ELSE ErrorDict,
          exc |-> IF reraise THEN outcome.exc ELSE NoExc]

\* a handler and no guarded call yet
InitGuarded ==
    /\ NoServer("guarding")
    /\ error_stats = NewErrorStats
    /\ stream = <<>>
    /\ mcp_error = 0
    /\ guarded = NoGuarded
    /\ retrying = NoRetrying
    /\ operation = NoOperation

\* a call of a function decorated with handle_errors
GuardedCall ==
    /\ pc = "guarding"
    /\ error_stats.total_errors < MaxErrors
    /\ \E has_handler \in BOOLEAN, reraise \in BOOLEAN,
          default_return \in DefaultReturns, outcome \in FunctionOutcomes :
         \E r \in {handle_errors(error_stats, has_handler, reraise,
                                  default_return, outcome)} :
             /\ error_stats' = r.stats
             /\ guarded' = [called |-> TRUE, has_handler |-> has_handler,
                            reraise |-> reraise, default_return |-> default_return,
                            outcome |-> outcome, raised |-> r.raised,
                            value |-> r.value, exc |-> r.exc]
    /\ UNCHANGED <<pydantic_v1, pc, initialized, running, client_capabilities,
                   request_count, error_count, authenticated, tools, tool_keys,
                   categories, rate_limiters, now, line, returned, written, call,
                   executions, passes, orphans, registered, stdin, logouts,
                   signals, stream, mcp_error, retrying, operation>>

\* the classes an exception class derives from, itself included: what an
\* except clause matches
Ancestors(type) ==
    CASE type = "ConnectionRefusedError" ->
           {"ConnectionRefusedError", "ConnectionError", "OSError", "Exception"}
      [] type \in {"ConnectError", "ReadTimeout"} ->
           {type, "TransportError", "RequestError", "HTTPError", "Exception"}
      [] type = "HTTPStatusError" -> {"HTTPStatusError", "HTTPError", "Exception"}
      [] type = "ConnectionError" -> {"ConnectionError", "OSError", "Exception"}
      [] OTHER -> {type, "Exception"}

\* except retry_exceptions as e
Retried(exception, retry_exceptions) == Ancestors(exception.type) \cap retry_exceptions # {}

\* the tuples given as retry_exceptions: the default, one class, none
RetryExceptions == {{"Exception"}, {"ConnectionError"}, {}}

\* the backoff factors
BackoffFactors == {1, 3}

\* what a function under retry does at one invocation
RetryOutcomes ==
    {FunctionReturns}
    \cup {FunctionRaises(Exc(t, FALSE, 0)) :
             t \in {"ValueError", "ConnectionError", "ConnectionRefusedError"}}

\* one pass of the for loop that also sleeps after the last attempt
retry_attempt_sleep_always(r, outcome) ==
    IF ~outcome.raises
    THEN [r EXCEPT !.outcomes = Append(@, outcome), !.result = "returned"]
    ELSE IF ~Retried(outcome.exc, r.retry_exceptions)
    THEN [r EXCEPT !.outcomes = Append(@, outcome), !.result = "raised",
                   !.exc = outcome.exc]
    ELSE IF r.attempt = r.max_retries
    THEN [r EXCEPT !.outcomes = Append(@, outcome), !.last_exception = outcome.exc,
                   !.sleeps = Append(@, r.backoff_factor * (2 ^ r.attempt)),
                   !.result = "raised", !.exc = outcome.exc]
    ELSE [r EXCEPT !.outcomes = Append(@, outcome), !.last_exception = outcome.exc,
                   !.sleeps = Append(@, r.backoff_factor * (2 ^ r.attempt)),
                   !.attempt = @ + 1]

\* one pass of the for loop of retry_on_error's wrapper: the function is
\* invoked and ends as outcome; the wrapper returns, lets the exception
\* through, breaks and raises last_exception, or sleeps and goes on
retry_attempt(r, outcome) ==
    IF ~outcome.raises
    THEN [r EXCEPT !.outcomes = Append(@, outcome), !.result = "returned"]
    ELSE IF ~Retried(outcome.exc, r.retry_exceptions)
    THEN [r EXCEPT !.outcomes = Append(@, outcome), !.result = "raised",
                   !.exc = outcome.exc]
    ELSE IF r.attempt = r.max_retries
    THEN [r EXCEPT !.outcomes = Append(@, outcome), !.last_exception = outcome.exc,
                   !.result = "raised", !.exc = outcome.exc]
    ELSE [r EXCEPT !.outcomes = Append(@, outcome), !.last_exception = outcome.exc,
                   !.sleeps = Append(@, r.backoff_factor * (2 ^ r.attempt)),
                   !.attempt = @ + 1]

\* a call of a function decorated with retry_on_error(max_retries,
\* backoff_factor, retry_exceptions), at range(max_retries + 1)'s first value
InitRetrying ==
    /\ NoServer("retrying")
    /\ error_stats = NewErrorStats
    /\ stream = <<>>
    /\ mcp_error = 0
    /\ guarded = NoGuarded
    /\ \E n \in 0..MaxRetries, b \in BackoffFactors, retry_exceptions \in RetryExceptions :
           retrying = [called |-> TRUE, max_retries |-> n, backoff_factor |-> b,
                       retry_exceptions |-> retry_exceptions, attempt |-> 0,
                       outcomes |-> <<>>, sleeps |-> <<>>, last_exception |-> NoExc,
                       result |-> "pending", exc |-> NoExc]
    /\ operation = NoOperation

\* the next pass of the for loop
RetryAttempt ==
    /\ pc = "retrying"
    /\ retrying.result = "pending"
    /\ \E outcome \in RetryOutcomes : retrying' = retry_attempt(retrying, outcome)
    /\ UNCHANGED <<pydantic_v1, pc, initialized, running, client_capabilities,
                   request_count, error_count, authenticated, tools, tool_keys,
                   categories, rate_limiters, error_stats, now, line, returned,
                   written, call, executions, passes, orphans, registered, stdin,
                   logouts, signals, stream, mcp_error, guarded, operation>>

\* how self._client.request(...) ends: a response with a status code, or an
\* exception of the transport (subclasses of httpx.RequestError)
HttpOutcomes == {"200", "401", "404", "429", "500", "ConnectError", "ReadTimeout"}

\* APIConnectionError(url, message): error_code keeps its default
APIConnectionError == CogneeBaseException(INTERNAL_ERROR)

\* the body of CogneeAPIClient._make_request for a request that ends as http
make_request(http) ==
    CASE http = "200" -> FunctionReturns
      [] http = "401" -> FunctionRaises(CogneeBaseException(AUTHENTICATION_ERROR))
      [] http = "429" -> FunctionRaises(Exc("Exception", FALSE, 0))
      [] http = "500" -> FunctionRaises(APIConnectionError)
      \* response.raise_for_status() and except httpx.HTTPStatusError
      [] http = "404" -> FunctionRaises(APIConnectionError)
      \* except httpx.RequestError as e: raise APIConnectionError(...)
      [] "RequestError" \in Ancestors(http) -> FunctionRaises(APIConnectionError)
      [] OTHER -> FunctionRaises(Exc(http, FALSE, 0))

\* what one invocation of the function that @handle_errors(reraise=False)
\* makes of _make_request gives to the retry wrapper around it
Guarded(g) ==
    IF g.raised THEN FunctionRaises(g.exc)
    ELSE [raises |-> FALSE, value |-> g.value, exc |-> NoExc]

\* the decorators of _make_request: retry_on_error(max_retries=3,
\* backoff_factor=1.0, retry_exceptions=(httpx.RequestError,))
MakeRequest(requests) ==
    [called |-> TRUE, max_retries |-> 3, backoff_factor |-> 1,
     retry_exceptions |-> {"RequestError"}, attempt |-> 0,
     outcomes |-> <<>>, sleeps |-> <<>>, last_exception |-> NoExc,
     result |-> "pending", exc |-> NoExc, requests |-> requests]

\* an API client whose _make_request is called for the first time
InitRequests ==
    /\ NoServer("requesting")
    /\ error_stats = NewErrorStats
    /\ stream = <<>>
    /\ mcp_error = 0
    /\ guarded = NoGuarded
    /\ retrying = MakeRequest(<<>>)
    /\ operation = NoOperation

\* one pass of the retry loop around _make_request: the wrapper of
\* handle_errors invokes the body, which sends one HTTP request
RequestAttempt ==
    /\ pc = "requesting"
    /\ retrying.result = "pending"
    /\ Len(retrying.requests) < MaxHttp
    /\ \E http \in HttpOutcomes :
         \E g \in {handle_errors(error_stats, FALSE, FALSE, "None", make_request(http))} :
             /\ error_stats' = g.stats
             /\ guarded' = [called |-> TRUE, has_handler |-> FALSE,
                            reraise |-> FALSE, default_return |-> "None",
                            outcome |-> make_request(http), raised |-> g.raised,
                            value |-> g.value, exc |-> g.exc, request |-> http]
             /\ retrying' = retry_attempt([retrying EXCEPT !.requests = Append(@, http)],
                                          Guarded(g))
    /\ UNCHANGED <<pydantic_v1, pc, initialized, running, client_capabilities,
                   request_count, error_count, authenticated, tools, tool_keys,
                   categories, rate_limiters, now, line, returned,
                   written, call, executions, passes, orphans, registered, stdin,
                   logouts, signals, stream, mcp_error, operation>>

\* _make_request has returned or raised, and is called again
NextRequest ==
    /\ pc = "requesting"
    /\ retrying.result # "pending"
    /\ Len(retrying.requests) < MaxHttp
    /\ retrying' = MakeRequest(retrying.requests)
    /\ guarded' = NoGuarded
    /\ UNCHANGED <<pydantic_v1, pc, initialized, running, client_capabilities,
                   request_count, error_count, authenticated, tools, tool_keys,
                   categories, rate_limiters, error_stats, now, line, returned,
                   written, call, executions, passes, orphans, registered, stdin,
                   logouts, signals, stream, mcp_error, operation>>

\* the server from start to exit, with the end of the input and signals
NextLifecycle ==
    \/ start
    \/ ReadInitialize
    \/ ReadToolsList
    \/ ReadUnknownMethod
    \/ EndOfStream
    \/ LoopBreaks
    \/ StartFinally
    \/ StartServerFinally
    \/ Signal
    \/ ShutdownTask

SpecLifecycle == Init /\ [][NextLifecycle]_vars

\* the life of the server with a tools/call whose tool takes its time: the
\* event loop runs other tasks while the handler awaits the execution
NextInFlight ==
    \/ start
    \/ ReadInitialize
    \/ ToolsCallAwaitsExecute
    \/ ExecuteReturns
    \/ EndOfStream
    \/ LoopBreaks
    \/ StartFinally
    \/ StartServerFinally
    \/ Signal
    \/ ShutdownTask

SpecInFlight == Init /\ [][NextInFlight]_vars

\* the event loop runs every coroutine that can go on: start is called, the
\* loop resumes when readline returns, the finally clauses run, a created
\* task is run
SpecLifecycleFair ==
    /\ SpecLifecycle
    /\ WF_vars(start)
    /\ WF_vars(LoopBreaks)
    /\ WF_vars(StartFinally)
    /\ WF_vars(StartServerFinally)
    /\ WF_vars(ShutdownTask)

\* an error handler given one exception after the other
NextErrors == HandleException

SpecErrors == InitErrors /\ [][NextErrors]_vars

\* functions decorated with handle_errors are called
NextGuarded == GuardedCall

SpecGuarded == InitGuarded /\ [][NextGuarded]_vars

\* a function decorated with retry_on_error is called
NextRetrying == RetryAttempt

SpecRetrying == InitRetrying /\ [][NextRetrying]_vars

\* the API client sends requests
NextRequests ==
    \/ RequestAttempt
    \/ NextRequest

SpecRequests == InitRequests /\ [][NextRequests]_vars

\* the registry called for one tool, with every kind of argument
NextCalls == CallTool

SpecCalls == InitCalls /\ [][NextCalls]_vars

(***************************************************************************)
(* Properties of the dispatcher.                                           *)
(***************************************************************************)
\* the loop has read a line
Handled1 == request_count > 0

\* the last line is a JSON object with an id that is a string or an integer
IsIdentified(l) == l.kind = "object" /\ l.has_id /\ l.id.t \in {"str", "int"}

\* C1: every line that parses to a JSON object whose id is a string or an
\* integer gets exactly one response, and the response's id equals the
\* request's id, whatever the method and however the handler ends.
C1_ResponseIdIsRequestId ==
    (Handled1 /\ IsIdentified(line)) =>
        /\ returned.ret = "resp"
        /\ written = <<returned.resp>>
        /\ returned.resp.id = line.id

\* C2: a line that is not valid JSON yields exactly one error response, with
\* code -32700 and id null, and it is written to the output.
C2_MalformedGetsParseError ==
    (Handled1 /\ line.kind = "malformed") =>
        /\ returned.ret = "resp"
        /\ returned.resp.has_error
        /\ returned.resp.code = PARSE_ERROR
        /\ returned.resp.id = IdNull
        /\ written = <<returned.resp>>

\* the last line is a JSON object without an id key
IsNotification(l) == l.kind = "object" /\ ~l.has_id

\* C3: a JSON object with no id key produces no response and nothing is
\* written to the output, whatever its method.
C3_NotificationGetsNoResponse ==
    (Handled1 /\ IsNotification(line)) => (returned.ret # "resp" /\ written = <<>>)

\* a notification whose method is not a string has been read: the handler
\* raised, and nothing was written
C3_Witness ==
    /\ Handled1
    /\ IsNotification(line)
    /\ line.method_type = "int"
    /\ returned.ret = "raise"
    /\ written = <<>>

(***************************************************************************)
(* Properties of tools/call and of the registry.                           *)
(***************************************************************************)
\* this step is an iteration of the message loop
LoopStep == request_count' = request_count + 1

\* the line is a request (an id that is a string or an integer) for method
IsRequestFor(l, method) == IsIdentified(l) /\ l.method_type = "str" /\ l.method = method

\* the limiter of the tool has an open window at instant t and its count has
\* reached the limit
Exhausted(tool_name, t) ==
    /\ tool_name \in DOMAIN rate_limiters
    /\ rate_limiters[tool_name].reset_time # None
    /\ t < rate_limiters[tool_name].reset_time
    /\ rate_limiters[tool_name].calls >= rate_limiters[tool_name].limit

\* the tool named by a tools/call is unknown, disabled or rate-limited, or
\* the arguments are invalid: the stages that fail before execute
FailsBeforeExecute(params) ==
    \/ params.name \notin DOMAIN tools
    \/ ~tools[params.name].metadata.enabled
    \/ Exhausted(params.name, now)
    \/ ~validate_arguments(tools[params.name].schema, params.arguments).ok

\* this step handles a tools/call request, with a name and an arguments
\* object, whose tool fails one of the stages or whose execution times out
\* or raises
ToolOutcomeErrorStep ==
    /\ LoopStep
    /\ IsRequestFor(line', "tools/call")
    /\ line'.params.valid
    /\ FailsBeforeExecute(line'.params) \/ (call'.executed /\ call'.ex # "ok")

\* the response is a result without a top-level error, and result.isError
IsErrorResult(ret) ==
    /\ ret.ret = "resp"
    /\ ~ret.resp.has_error
    /\ ret.resp.result.kind = "tools/call"
    /\ ret.resp.result.outcome.isError

\* authenticate() was invoked for this call and raised
AuthenticationFailed(c) == c.authenticate /\ ~c.entered

C5_StagesInOrder ==
    [][(LoopStep /\ call'.entered) =>
          CASE call'.name \notin DOMAIN tools ->
                 /\ call'.stage = "notfound"
                 /\ ~call'.executed
                 /\ UNCHANGED registry_vars
            [] ~tools[call'.name].metadata.enabled ->
                 /\ call'.stage = "disabled"
                 /\ ~call'.executed
                 /\ UNCHANGED registry_vars
            [] Exhausted(call'.name, now) ->
                 /\ call'.stage = "ratelimited"
                 /\ ~call'.executed
                 /\ UNCHANGED tools
            [] ~validate_arguments(tools[call'.name].schema, line'.params.arguments).ok ->
                 /\ call'.stage = "invalid"
                 /\ ~call'.executed
                 /\ UNCHANGED tools
            [] OTHER ->
                 /\ call'.executed
                 /\ call'.stage \in {"ok", "timeout", "failed"}
                 /\ tools'[call'.name].stats.total_calls
                      = tools[call'.name].stats.total_calls + 1]_vars

\* a call with invalid arguments has met an exhausted limiter: the outcome
\* names the rate limit, the earlier stage
C5_Witness ==
    /\ call.entered
    /\ call.stage = "ratelimited"
    /\ call.name \in DOMAIN tools
    /\ ~validate_arguments(tools[call.name].schema, line.params.arguments).ok
    /\ ~call.executed

\* C6: while initialized is false, every tools/list and every tools/call
\* request gets an error response with code -32603 and the registry is
\* untouched: nothing is executed, no count is consumed, no stats change.
C6_NotInitializedIsRefused ==
    [][(/\ ~initialized
        /\ LoopStep
        /\ IsRequestFor(line', "tools/list") \/ IsRequestFor(line', "tools/call")) =>
            /\ returned'.ret = "resp"
            /\ returned'.resp.has_error
            /\ returned'.resp.code = INTERNAL_ERROR
            /\ written' = <<returned'.resp>>
            /\ ~call'.entered
            /\ UNCHANGED registry_vars
            /\ UNCHANGED <<executions, passes>>]_vars

\* a well-formed tools/call for a registered tool has been refused before
\* any initialize succeeded
C6_Witness ==
    /\ ~initialized
    /\ Handled1
    /\ IsRequestFor(line, "tools/call")
    /\ line.params.valid
    /\ line.params.name \in DOMAIN tools
    /\ returned.ret = "resp"
    /\ returned.resp.code = INTERNAL_ERROR
    /\ written = <<returned.resp>>

\* this step handles an initialize request; valid says whether its params
\* satisfy MCPInitializeRequest
InitializeStep(valid) ==
    /\ LoopStep
    /\ IsRequestFor(line', "initialize")
    /\ line'.params.shape = "dict"
    /\ line'.params.valid = valid

\* C7: initialized is false from construction until an initialize request
\* with valid params succeeds, is true from then on and is never set back;
\* an initialize request with invalid params returns an error response and
\* leaves initialized and the client capabilities as they were.
C7_InitializedOnce ==
    /\ ~initialized
    /\ [][/\ (~initialized /\ initialized') =>
                (InitializeStep(TRUE) /\ returned'.ret = "resp" /\ ~returned'.resp.has_error)
          /\ InitializeStep(TRUE) =>
                (initialized' /\ client_capabilities' = line'.params.name)
          /\ initialized => initialized'
          /\ InitializeStep(FALSE) =>
                /\ returned'.ret = "resp"
                /\ returned'.resp.has_error
                /\ written' = <<returned'.resp>>
                /\ UNCHANGED <<initialized, client_capabilities>>]_vars

\* an initialize request with invalid params has been answered with an
\* error after an earlier initialize succeeded: the flag and the
\* capabilities stored by the first are still there
C7_Witness ==
    /\ initialized
    /\ client_capabilities = "capsB"
    /\ IsRequestFor(line, "initialize")
    /\ ~line.params.valid
    /\ returned.ret = "resp"
    /\ returned.resp.has_error

\* the instants of passes that lie in the limiter's current window
PassesInWindow(tool_name) ==
    {i \in 1..Len(passes[tool_name]) :
        /\ rate_limiters[tool_name].reset_time # None
        /\ passes[tool_name][i] >= rate_limiters[tool_name].reset_time - Window
        /\ passes[tool_name][i] < rate_limiters[tool_name].reset_time}

\* C8: for every tool with rate_limit N the limiter's count never exceeds N
\* within a window (the count is the number of calls let through in the
\* window), and a call the rate limit rejects leaves the count unchanged.
C8_CountNeverExceedsLimit ==
    /\ [](\A n \in DOMAIN rate_limiters :
             /\ rate_limiters[n].calls <= tools[n].metadata.rate_limit
             /\ rate_limiters[n].calls = Cardinality(PassesInWindow(n)))
    /\ [][(LoopStep /\ call'.entered /\ call'.stage = "ratelimited") =>
             /\ rate_limiters'[call'.name].calls = rate_limiters[call'.name].calls
             /\ UNCHANGED passes]_vars

\* a tool with rate_limit 2 has let two calls through and rejected the third
C8_Witness ==
    /\ call.entered
    /\ call.stage = "ratelimited"
    /\ tools[call.name].metadata.rate_limit = 2
    /\ rate_limiters[call.name].calls = 2
    /\ Len(passes[call.name]) = 2

\* the start of the window the limiter is in after the passes of a history:
\* the first pass opens a window, a pass 60 seconds or more after the start
\* of the window opens the next
RECURSIVE WindowStart(_, _)
WindowStart(history, opened) ==
    IF history = <<>> THEN opened
    ELSE WindowStart(Tail(history),
                     IF opened = None \/ Head(history) >= opened + Window
                     THEN Head(history) ELSE opened)

\* every call made to the tool so far passed the rate limit with valid
\* arguments and its execution succeeded
OnlySuccesses(tool_name) ==
    /\ executions[tool_name].failed = 0
    /\ executions[tool_name].ok = Len(passes[tool_name])

\* the calls let through in the window that opened at the instant opened
InWindow(history, opened) ==
    Cardinality({i \in 1..Len(history) : history[i] >= opened})

\* C9: for an enabled tool with rate_limit N and calls with valid arguments
\* whose execution succeeds, a call succeeds while fewer than N calls have
\* succeeded in the 60-second window opened by the first of them, the next
\* call in that window is rejected with isError = true, and a call made once
\* the window has elapsed succeeds.
C9_ExactlyNPerWindow ==
    [][(/\ LoopStep
        /\ call'.entered
        /\ call'.name \in DOMAIN rate_limiters
        /\ tools[call'.name].metadata.enabled
        /\ validate_arguments(tools[call'.name].schema, line'.params.arguments).ok
        /\ OnlySuccesses(call'.name)
        /\ call'.executed => call'.ex = "ok") =>
            IF \/ passes[call'.name] = << >>
               \/ now >= WindowStart(passes[call'.name], None) + Window
               \/ InWindow(passes[call'.name], WindowStart(passes[call'.name], None))
                    < tools[call'.name].metadata.rate_limit
            THEN call'.stage = "ok" /\ ~returned'.resp.result.outcome.isError
            ELSE /\ call'.stage = "ratelimited"
                 /\ IsErrorResult(returned')
                 /\ InWindow(passes[call'.name], WindowStart(passes[call'.name], None))
                      = tools[call'.name].metadata.rate_limit]_vars

\* a tool with rate_limit 1 has served one call, and a call made when its
\* window had elapsed has succeeded
C9_Witness ==
    /\ call.entered
    /\ call.stage = "ok"
    /\ call.at = Window
    /\ tools[call.name].metadata.rate_limit = 1
    /\ passes[call.name] = <<0, Window>>
    /\ executions[call.name] = [ok |-> 2, failed |-> 0]

\* C10: after K executions of a tool that succeeded and M that failed
\* (timeout or exception), in any order, total_calls = K+M,
\* successful_calls = K, failed_calls = M and average_execution_time is
\* total_execution_time / (K+M).
C10_StatsCountExecutions ==
    \A n \in DOMAIN tools :
        /\ tools[n].stats.total_calls = executions[n].ok + executions[n].failed
        /\ tools[n].stats.successful_calls = executions[n].ok
        /\ tools[n].stats.failed_calls = executions[n].failed
        /\ (executions[n].ok + executions[n].failed > 0) =>
              tools[n].stats.average_execution_time.num
                    * (executions[n].ok + executions[n].failed)
                 = tools[n].stats.total_execution_time
                    * tools[n].stats.average_execution_time.den

\* a tool has succeeded once and timed out once
C10_Witness ==
    \E n \in DOMAIN tools :
        /\ executions[n].ok = 1
        /\ executions[n].failed = 1
        /\ tools[n].stats.total_execution_time = DefaultTimeout
        /\ tools[n].stats.total_calls = 2

(***************************************************************************)
(* Properties of the failure paths.                                        *)
(***************************************************************************)
\* this step is a call_tool whose execution ended as ex
ExecutionStep(ex) == LoopStep /\ call'.entered /\ call'.executed /\ call'.ex = ex

\* C11: when the execution of a tool exceeds metadata.timeout, call_tool
\* returns an outcome with isError = true and the timeout message, which
\* names the tool, and the stats of the tool change by failed_calls + 1 and
\* total_calls + 1 exactly, successful_calls staying as it was.
C11_TimeoutIsAFailedCall ==
    [][ExecutionStep("timeout") =>
          /\ IsErrorResult(returned')
          /\ returned'.resp.result.outcome.stage = "timeout"
          /\ returned'.resp.result.outcome.name = call'.name
          /\ tools'[call'.name].stats.failed_calls
                = tools[call'.name].stats.failed_calls + 1
          /\ tools'[call'.name].stats.total_calls
                = tools[call'.name].stats.total_calls + 1
          /\ tools'[call'.name].stats.successful_calls
                = tools[call'.name].stats.successful_calls
          /\ tools'[call'.name].stats.total_execution_time
                = tools[call'.name].stats.total_execution_time
                    + tools[call'.name].metadata.timeout
          /\ \A n \in DOMAIN tools \ {call'.name} : tools'[n] = tools[n]]_vars

\* a tool that had succeeded once has timed out
C11_Witness ==
    /\ call.entered
    /\ call.ex = "timeout"
    /\ returned.resp.result.outcome.stage = "timeout"
    /\ tools[call.name].stats.successful_calls = 1
    /\ tools[call.name].stats.failed_calls = 1
    /\ now = DefaultTimeout

\* C12: when the execution of a tool times out it is cancelled before
\* call_tool returns: once the timeout outcome has been returned nothing of
\* that execution is running any more, also while later requests are being
\* processed.
C12_NoTaskOutlivesTheCall == orphans = {}

\* C13: for a tools/call on a registered tool with requires_auth while the
\* auth provider is not authenticated and authenticate() raises, the
\* response is the protocol error -32001 and call_tool is not entered:
\* execute is not invoked, no rate-limit count is consumed, no stats change.
C13_AuthFailureIsProtocolError ==
    [][(/\ LoopStep
        /\ IsRequestFor(line', "tools/call")
        /\ line'.params.valid
        /\ line'.params.name \in DOMAIN tools
        /\ tools[line'.params.name].metadata.requires_auth
        /\ ~authenticated
        /\ ~call'.auth_ok) =>
            /\ returned'.ret = "resp"
            /\ returned'.resp.has_error
            /\ returned'.resp.code = AUTHENTICATION_ERROR
            /\ written' = <<returned'.resp>>
            /\ ~call'.entered
            /\ ~call'.executed
            /\ UNCHANGED registry_vars
            /\ UNCHANGED <<executions, passes, authenticated>>]_vars

\* authenticate() has raised for an enabled tool with a rate limit and valid
\* arguments: error -32001, and the limiter has not counted the call
C13_Witness ==
    /\ ~call.auth_ok
    /\ call.authenticate
    /\ IsRequestFor(line, "tools/call")
    /\ tools[call.name].metadata.enabled
    /\ validate_arguments(tools[call.name].schema, line.params.arguments).ok
    /\ call.name \in DOMAIN rate_limiters
    /\ rate_limiters[call.name].calls = 0
    /\ returned.resp.code = AUTHENTICATION_ERROR
    /\ written = <<returned.resp>>

\* C14: calling a tool name that is not registered returns an outcome with
\* isError = true whose message contains the tool name, as a result and not
\* as a protocol error, and changes no rate-limiter state and no stats of any
\* tool.
C14_UnknownToolIsNamedInResult ==
    [][(/\ LoopStep
        /\ initialized
        /\ IsRequestFor(line', "tools/call")
        /\ line'.params.valid
        /\ line'.params.name \notin DOMAIN tools) =>
            /\ call'.entered
            /\ IsErrorResult(returned')
            /\ returned'.resp.result.outcome.stage = "notfound"
            /\ returned'.resp.result.outcome.name = line'.params.name
            /\ written' = <<returned'.resp>>
            /\ UNCHANGED registry_vars
            /\ UNCHANGED <<executions, passes>>]_vars

\* an unknown name has been called by a client that was not authenticated,
\* after a registered tool had used its rate limit: the outcome names the
\* unknown tool
C14_Witness ==
    /\ call.entered
    /\ call.name = UnknownTool
    /\ ~authenticated
    /\ returned.resp.result.outcome.name = UnknownTool
    /\ IsErrorResult(returned)
    /\ \E n \in DOMAIN rate_limiters : rate_limiters[n].calls = 1

\* ---------------------------------------------------------------------------
\* Registering two tools under one name

\* the definitions of a list that carry the name
DefinitionsFor(defs, tool_name) == SelectSeq(defs, LAMBDA d : d.name = tool_name)

\* two tools have been registered, under the same name
SameNameTwice ==
    /\ Len(registered) = 2
    /\ registered[1].metadata.name = registered[2].metadata.name

\* what list_tools returns for the name of the second registered tool
ListedFor(enabled_only) ==
    DefinitionsFor(tool_definitions(tools, tool_keys, enabled_only),
                   registered[2].metadata.name)

\* C15 as stated: after two tools are registered under the same name, get(name)
\* returns the second and list returns exactly one definition for that name,
\* the second's, whatever the categories, rate limits and enabled flags.
C15_ListHasTheSecond ==
    SameNameTwice =>
        /\ get_tool(tools, registered[2].metadata.name) = registered[2]
        /\ ListedFor(TRUE) = <<to_tool_definition(registered[2])>>

\* C15 amended: after two tools are registered under the same name, get(name)
\* returns the second; list with enabled_only = false returns exactly one
\* definition for that name, the second's; list with enabled_only = true (the
\* default, and what tools/list uses) returns that one definition when the
\* second tool is enabled and no definition for the name when it is disabled;
\* whatever the two tools' categories, rate limits and schemas.
C15_ListHasTheSecondWhenEnabled ==
    SameNameTwice =>
        /\ get_tool(tools, registered[2].metadata.name) = registered[2]
        /\ ListedFor(FALSE) = <<to_tool_definition(registered[2])>>
        /\ ListedFor(TRUE) = IF registered[2].metadata.enabled
                             THEN <<to_tool_definition(registered[2])>>
                             ELSE <<>>

\* two tools that differ in category, rate limit, enabled flag and schema have
\* been registered under one name, the second of them disabled
C15_Witness ==
    /\ SameNameTwice
    /\ registered[1].metadata.category # registered[2].metadata.category
    /\ registered[1].metadata.rate_limit # registered[2].metadata.rate_limit
    /\ registered[1].metadata.enabled /\ ~registered[2].metadata.enabled
    /\ registered[1].schema # registered[2].schema
    /\ registered[2].metadata.name \in DOMAIN tools

\* ---------------------------------------------------------------------------
\* Validation of the arguments of a call

\* the last call reached tool.validate_arguments: the tool is registered and
\* enabled and the call passed the rate limit
ReachedValidation == call.entered /\ call.passed /\ call.name \in DOMAIN tools

\* the required fields of the called tool that the arguments of the last call lack
MissingOf(required) == {i \in 1..Len(required) : call.arguments[required[i]] = "absent"}

\* the outcome of the last call is an error whose message references the
\* field, and the call did not reach execute
RejectedFor(field) ==
    /\ call.result.isError
    /\ call.result.field = field
    /\ ~call.executed

\* C16 as stated: for every tool and every field x listed in its schema's
\* required set, a call whose arguments lack x returns an outcome with
\* isError = true whose message references x, and execute is not invoked.
C16_MissingFieldIsNamed ==
    [][ReachedValidation' =>
          \A i \in MissingOf(tools[call.name].schema.required)' :
              /\ RejectedFor(tools[call.name].schema.required[i])'
              /\ executions' = executions]_vars

\* C16 amended: for every tool, a call that reaches validation and whose
\* arguments lack one or more fields of the schema's required list returns an
\* outcome with isError = true whose message references the first of the
\* lacking fields in the order of the list, and no other field; execute is
\* not invoked.
C16_FirstMissingFieldIsNamed ==
    [][ReachedValidation' =>
          \A i \in MissingOf(tools[call.name].schema.required)' :
              (\A j \in MissingOf(tools[call.name].schema.required)' : i <= j)
                  => /\ RejectedFor(tools[call.name].schema.required[i])'
                     /\ executions' = executions
                     /\ tools' = tools]_vars

\* a call that lacks both fields of a required list of two was refused for the
\* first of them, while the value missing second had no part in the message
C16_Witness ==
    /\ ReachedValidation
    /\ tools[call.name].schema.required = <<"x", "y">>
    /\ MissingOf(tools[call.name].schema.required) = {1, 2}
    /\ RejectedFor("x")
    /\ call.result.stage = "invalid"

\* a JSON value is of the type a schema declares
IsJsonType(jt, declared) ==
    CASE declared = "string" -> jt = "string"
      [] declared = "number" -> jt \in {"int", "float"}
      [] declared = "boolean" -> jt = "bool"
      [] declared = "array" -> jt = "array"
      [] declared = "object" -> jt = "object"
      [] OTHER -> TRUE

\* the properties, by position, whose value in the last call is present and
\* of another JSON type than the declared one
DifferingOf(properties) ==
    {i \in 1..Len(properties) :
        /\ call.arguments[properties[i][1]] # "absent"
        /\ ~IsJsonType(call.arguments[properties[i][1]], properties[i][2])}

\* C17: for every declared type in {string, number, boolean, array, object}
\* and every present argument value whose JSON type differs from the declared
\* one (for example a boolean given for a number field), the call returns an
\* outcome with isError = true whose message references the field; a value of
\* the declared type is accepted.  Stated for a call that reaches validation
\* with every required field present, and for the first differing property.
C17_TypeMismatchIsRejected ==
    (ReachedValidation /\ MissingOf(tools[call.name].schema.required) = {}) =>
        /\ \A i \in DifferingOf(tools[call.name].schema.properties) :
               (\A j \in DifferingOf(tools[call.name].schema.properties) : i <= j)
                   => /\ call.result.isError
                      /\ call.result.field = tools[call.name].schema.properties[i][1]
        /\ DifferingOf(tools[call.name].schema.properties) = {}
               => call.executed

\* ---------------------------------------------------------------------------
\* The boundary of _handle_message and the message loop

\* C18: for every non-blank input line _handle_message returns normally (a
\* response, or nothing for a notification): no exception escapes into the
\* message loop, and a message that has an id key gets exactly one response,
\* which is an error response with id null where the id cannot be recovered
\* (a message whose id is null, a JSON value that is not an object).
C18_HandleMessageReturns ==
    Handled1 =>
        /\ returned.ret \in {"resp", "none"}
        /\ (line.kind = "object" /\ line.has_id) =>
               (returned.ret = "resp" /\ written = <<returned.resp>>)
        /\ (line.kind = "nonobject" \/ (line.kind = "object" /\ line.has_id
                                                        /\ line.id = IdNull)) =>
               (returned.resp.has_error /\ returned.resp.id = IdNull)

\* the line is one the loop must survive: not JSON, or a request for a method
\* the server does not know
IsUnknownMethod(l) == IsIdentified(l) /\ l.method_type = "str" /\ l.method \notin KnownMethods
SurvivedLine(l) == l.kind = "malformed" \/ IsUnknownMethod(l)

\* C19: a request with an unknown method gets an error response with code
\* -32601, and neither an unknown method nor a malformed-JSON line terminates
\* the message loop: each produces a response, which is written, and the loop
\* goes on serving.
C19_BadInputIsAnsweredAndSurvived ==
    [][(LoopStep /\ SurvivedLine(line')) =>
          /\ running' /\ pc' = "serving"
          /\ returned'.ret = "resp"
          /\ returned'.resp.has_error
          /\ written' = <<returned'.resp>>
          /\ IsUnknownMethod(line') => returned'.resp.code = METHOD_NOT_FOUND]_vars

\* C20: responses are written in the order their requests were read: when a
\* line is read the response to the line before has already been written,
\* and what an iteration writes is the response to the line it read and
\* nothing else, also when the request runs a tool up to its timeout; no
\* other step writes.
C20_ResponsesInRequestOrder ==
    [][/\ LoopStep =>
            /\ returned.ret = "resp" => written = <<returned.resp>>
            /\ written' = IF returned'.ret = "resp" THEN <<returned'.resp>> ELSE <<>>
            /\ returned'.ret = "resp" =>
                   (line'.has_id /\ returned'.resp.id.v = line'.id.v)
       /\ ~LoopStep => (written' = written /\ line' = line)]_vars

\* the second line read ran a tool up to its timeout: its response was written
\* thirty seconds after the line was read, and the response to the first line
\* had been written before
C20_Witness ==
    /\ request_count = 2
    /\ call.entered /\ call.executed /\ call.ex = "timeout"
    /\ now = call.at + DefaultTimeout
    /\ returned.ret = "resp"
    /\ written = <<returned.resp>>
    /\ returned.resp.result.outcome.stage = "timeout"
    /\ line.id = IdStr("1")

\* ---------------------------------------------------------------------------
\* Shutdown

\* C21: when the input stream reaches end-of-stream the message loop
\* terminates: eventually, and from then on for ever, running is false and the
\* auth manager's logout has been invoked exactly once, also when shutdown is
\* invoked again afterwards (by start's finally, by start_server's finally, by
\* the task of a signal handler).
C21_EndOfStreamStopsTheServer ==
    (stdin = "eof") ~> [](~running /\ logouts = 1)

\* the input has ended and the process has left start_server after a signal:
\* shutdown was invoked by the signal's task and by both finally clauses, and
\* logout once
C21_Witness ==
    /\ stdin = "eof"
    /\ pc = "exited"
    /\ signals = [received |-> 1, pending |-> 0]
    /\ ~running
    /\ logouts = 1

\* C22: after a termination signal has triggered shutdown (running set to
\* false) the server accepts no new line: no input line that arrives after that
\* point is dispatched to a handler or answered.
C22_NoLineAfterShutdown ==
    [][(signals.received > 0 /\ ~running) =>
          /\ request_count' = request_count
          /\ returned' = returned
          /\ written' = written]_vars

\* ---------------------------------------------------------------------------
\* The error handler

\* the iteration answered with a protocol error made from an exception: every
\* error response but the one for an unknown method, which the dispatcher
\* builds without an exception
ExceptionAnsweredStep ==
    /\ LoopStep
    /\ returned'.ret = "resp"
    /\ returned'.resp.has_error
    /\ ~IsUnknownMethod(line')

\* C24: every exception that the dispatcher turns into a protocol error
\* response is recorded by the server's error handler: total_errors grows by
\* one, and so does the histogram, and an entry is appended to the recent
\* errors; this includes the domain exceptions raised by handlers (server not
\* initialized, authentication failure, unknown resource or prompt).
C24_AnsweredExceptionsAreRecorded ==
    [][ExceptionAnsweredStep =>
          /\ error_stats'.total_errors = error_stats.total_errors + 1
          /\ Len(error_stats'.recent_errors) = Len(error_stats.recent_errors) + 1
          /\ \E type \in DOMAIN error_stats'.error_types :
                 error_stats'.error_types[type] =
                    (IF type \in DOMAIN error_stats.error_types
                     THEN error_stats.error_types[type] ELSE 0) + 1]_vars

\* the exception handle_exception was given last
LastRaised == stream[error_stats.total_errors]

\* the class of error_mapping an exception class is or derives from
MappedKind(type) ==
    CASE type \in {"ValidationError", "JSONDecodeError"} -> "ValueError"
      [] type = "ConnectionRefusedError" -> "ConnectionError"
      [] OTHER -> type

\* the code the mapping gives a kind
CodeOfKind(kind) ==
    CASE kind \in {"ValueError", "TypeError", "KeyError"} -> -32602
      [] kind = "FileNotFoundError" -> -32003
      [] kind = "PermissionError" -> -32002
      [] kind \in {"ConnectionError", "TimeoutError"} -> -32004
      [] OTHER -> -32603

\* C23: handle_exception maps a generic exception to its code by kind:
\* ValueError, TypeError and KeyError to -32602, FileNotFoundError to -32003,
\* permission errors to -32002, connection and timeout errors to -32004 and
\* anything else to -32603, for every exception of those kinds, subclasses
\* included.
C23_CodeByKind ==
    (pc = "handling" /\ error_stats.total_errors > 0 /\ ~LastRaised.cognee) =>
        mcp_error = CodeOfKind(MappedKind(LastRaised.type))

\* the sum of the counts of a histogram
RECURSIVE SumOf(_)
SumOf(histogram) ==
    IF DOMAIN histogram = {} THEN 0
    ELSE LET type == CHOOSE t \in DOMAIN histogram : TRUE
         IN  histogram[type] + SumOf([t \in DOMAIN histogram \ {type} |-> histogram[t]])

\* C25: after any sequence of handle_exception calls the recent-errors log
\* holds at most 50 entries, namely the most recent ones in arrival order, and
\* total_errors equals the sum of the per-type histogram counts.
C25_LogIsTheLastFifty ==
    pc = "handling" =>
        /\ Len(error_stats.recent_errors) =
               (IF error_stats.total_errors <= 50 THEN error_stats.total_errors ELSE 50)
        /\ \A i \in 1..Len(error_stats.recent_errors) :
               error_stats.recent_errors[i] =
                  stream[error_stats.total_errors - Len(error_stats.recent_errors) + i].type
        /\ error_stats.total_errors = SumOf(error_stats.error_types)

\* fifty-two exceptions of two classes have been handled: the log holds the
\* last fifty, the two oldest are gone
C25_Witness ==
    /\ pc = "handling"
    /\ error_stats.total_errors = 52
    /\ Len(error_stats.recent_errors) = 50
    /\ error_stats.recent_errors[1] = stream[3].type
    /\ stream[1].type # stream[3].type
    /\ Cardinality(DOMAIN error_stats.error_types) = 2

\* ---------------------------------------------------------------------------
\* The wrappers

\* C26: a function wrapped by handle_errors with reraise = false and a
\* caller-supplied default_return returns exactly that default value whenever
\* the function raises, for every default value (including false, 0, an empty
\* string and an empty collection); with reraise = true the original
\* exception propagates.
C26_DefaultIsReturned ==
    (guarded.called /\ guarded.outcome.raises) =>
        IF guarded.reraise
        THEN guarded.raised /\ guarded.exc = guarded.outcome.exc
        ELSE guarded.default_return # "None" =>
                (~guarded.raised /\ guarded.value = guarded.default_return)

\* the invocations, by position, that failed with an exception of the set
RetriedAt(r) ==
    {i \in 1..Len(r.outcomes) :
        r.outcomes[i].raises /\ Retried(r.outcomes[i].exc, r.retry_exceptions)}

\* C27: a function wrapped by retry_on_error(max_retries = N, backoff_factor
\* = b, retry_exceptions = S) is invoked until its first success and at most
\* N+1 times; after the k-th failed attempt (k from 0, k < N) the wrapper
\* sleeps b * 2^k before the next attempt and does not sleep after the last;
\* if every attempt fails the last exception is raised; an exception outside
\* S propagates at once without a further attempt.
C27_RetriesWithBackoff ==
    pc = "retrying" =>
        /\ Len(retrying.outcomes) <= retrying.max_retries + 1
        \* every invocation but the last failed with an exception of S
        /\ \A i \in 1..(Len(retrying.outcomes) - 1) : i \in RetriedAt(retrying)
        \* one sleep of b * 2^k after the k-th failed attempt, for k < N
        /\ Len(retrying.sleeps) =
               Cardinality({i \in RetriedAt(retrying) : i - 1 < retrying.max_retries})
        /\ \A k \in 0..(Len(retrying.sleeps) - 1) :
               retrying.sleeps[k + 1] = retrying.backoff_factor * (2 ^ k)
        \* how the call ends
        /\ retrying.result = "returned" <=>
               (retrying.outcomes # <<>>
                /\ ~retrying.outcomes[Len(retrying.outcomes)].raises)
        /\ retrying.result = "raised" <=>
               (/\ retrying.outcomes # <<>>
                /\ retrying.outcomes[Len(retrying.outcomes)].raises
                /\ \/ Len(retrying.outcomes) \notin RetriedAt(retrying)
                   \/ Len(retrying.outcomes) = retrying.max_retries + 1)
        /\ retrying.result = "raised" =>
               retrying.exc = retrying.outcomes[Len(retrying.outcomes)].exc

\* three attempts under max_retries = 2 have failed with two different
\* exceptions of the set: two sleeps, of b and 2b, and the last one raised
C27_Witness ==
    /\ pc = "retrying"
    /\ retrying.max_retries = 2
    /\ retrying.backoff_factor = 3
    /\ retrying.retry_exceptions = {"ConnectionError"}
    /\ Len(retrying.outcomes) = 3
    /\ retrying.outcomes[1].exc.type = "ConnectionError"
    /\ retrying.outcomes[3].exc.type = "ConnectionRefusedError"
    /\ retrying.sleeps = <<3, 6>>
    /\ retrying.result = "raised"
    /\ retrying.exc.type = "ConnectionRefusedError"

\* the names of the definitions a list operation returned
ListedNames(op) == {op.listing[i].name : i \in 1..Len(op.listing)}

\* the tools before and after differ in nothing but the enabled flag of the
\* tool called tool_name, which is now flag
OnlyEnabledSet(tool_name, flag) ==
    /\ DOMAIN tools' = DOMAIN tools
    /\ \A m \in DOMAIN tools :
           tools'[m] = IF m = tool_name
                       THEN [tools[m] EXCEPT !.metadata.enabled = flag]
                       ELSE tools[m]

\* C28: a registered tool's metadata is changed only by enable and disable,
\* and they change only the enabled flag: stats, rate-limiter state and all
\* other metadata fields are unchanged by them; no call_tool, list, get or
\* stats operation changes any metadata; while the flag is false (from
\* disable(name) until enable(name)) every call_tool(name) returns the
\* disabled outcome and list(enabled_only) omits the tool.
C28_OnlyEnableAndDisableChangeMetadata ==
    [][pc = "operating" =>
        /\ operation'.op \in {"enable", "disable"} =>
               /\ operation'.ok <=> operation'.name \in DOMAIN tools
               /\ OnlyEnabledSet(operation'.name, operation'.op = "enable")
               /\ rate_limiters' = rate_limiters
               /\ tool_keys' = tool_keys
               /\ categories' = categories
        /\ operation'.op \in {"call", "list", "get", "stats"} =>
               /\ DOMAIN tools' = DOMAIN tools
               /\ \A m \in DOMAIN tools : tools'[m].metadata = tools[m].metadata
        /\ (/\ operation'.op = "call"
            /\ operation'.name \in DOMAIN tools
            /\ ~tools[operation'.name].metadata.enabled) =>
               /\ call'.result = ToolCallResult(TRUE, "disabled", operation'.name, "")
               /\ ~call'.executed
               /\ tools' = tools
               /\ rate_limiters' = rate_limiters
        /\ (operation'.op = "list" /\ operation'.enabled_only) =>
               ListedNames(operation') =
                   {m \in DOMAIN tools : tools[m].metadata.enabled}
      ]_vars

\* the one instance ever registered has executed a call and its limiter has
\* counted it; it is disabled now, the last call returned the disabled
\* outcome and the list of the enabled tools is empty
C28_Witness ==
    /\ pc = "operating"
    /\ Len(registered) = 1
    /\ tools["t1"].stats.total_calls = 1
    /\ "t1" \in DOMAIN rate_limiters
    /\ rate_limiters["t1"].calls = 1
    /\ ~tools["t1"].metadata.enabled
    /\ call.entered
    /\ call.stage = "disabled"
    /\ operation.op = "list"
    /\ operation.enabled_only
    /\ operation.listing = <<>>

\* C29: for every tool name, the counters total_calls, successful_calls and
\* failed_calls reported by stats(name) never decrease over any sequence of
\* calls and registry operations on a registry where the name stays
\* registered, registering a tool again under the same name included.
C29_CountersNeverDecrease ==
    [][pc = "operating" =>
        \A n \in DOMAIN tools \cap DOMAIN tools' :
            /\ get_tool_stats(tools', n).stats.total_calls
                   >= get_tool_stats(tools, n).stats.total_calls
            /\ get_tool_stats(tools', n).stats.successful_calls
                   >= get_tool_stats(tools, n).stats.successful_calls
            /\ get_tool_stats(tools', n).stats.failed_calls
                   >= get_tool_stats(tools, n).stats.failed_calls
      ]_vars

\* C30: in the guarded call path the auth gate comes after the enable check,
\* the rate limit and argument validation: a tools/call of a tool that is
\* disabled, rate-limited or given invalid arguments never invokes
\* authenticate().
C30_AuthGateComesLast ==
    [][(/\ LoopStep
        /\ IsRequestFor(line', "tools/call")
        /\ line'.params.valid
        /\ FailsBeforeExecute(line'.params))
       => ~call'.authenticate]_vars

\* C31: a tool registered with rate_limit set to 0 has every call rejected
\* by the rate-limit stage.
C31_ZeroLimitRejectsEveryCall ==
    [][(/\ pc = "operating"
        /\ operation'.op = "call"
        /\ operation'.name \in DOMAIN tools
        /\ tools[operation'.name].metadata.enabled
        /\ tools[operation'.name].metadata.rate_limit = 0)
       => (call'.stage = "ratelimited" /\ ~call'.executed)]_vars

\* the calls of the tool that passed the rate-limit stage at an instant of
\* the 60 seconds from t on
PassedFrom(tool_name, t) ==
    Cardinality({i \in 1..Len(passes[tool_name]) :
                    /\ t <= passes[tool_name][i]
                    /\ passes[tool_name][i] < t + Window})

\* C32: for a tool with rate_limit = N that stays registered, in every
\* interval of 60 seconds (not only the intervals aligned with the limiter's
\* window) at most N calls pass the rate-limit stage.
C32_AtMostNInEveryInterval ==
    pc = "limiting" =>
        \A n \in DOMAIN rate_limiters : \A t \in 0..MaxNow :
            PassedFrom(n, t) <= tools[n].metadata.rate_limit

\* C32, as the code has it: at most N calls pass in each window of the
\* limiter (the 60 seconds from the pass that opens it); an interval of 60
\* seconds that begins inside one window and ends inside the next holds up
\* to N - 1 passes of the first and N of the second, 2N - 1 in all, so the
\* bound N holds for every interval only where N = 1.
C32_AtMostNInEveryWindow ==
    pc = "limiting" =>
        \A n \in DOMAIN rate_limiters :
            /\ Cardinality(PassesInWindow(n)) <= tools[n].metadata.rate_limit
            /\ \A t \in 0..MaxNow :
                   PassedFrom(n, t) <= 2 * tools[n].metadata.rate_limit - 1

\* a tool with rate_limit 2: one call passed as the window opened, one 50
\* seconds later, and two more when the window had just ended, three of
\* them within 10 seconds
C32_Witness ==
    /\ pc = "limiting"
    /\ tools["t1"].metadata.rate_limit = 2
    /\ passes["t1"] = <<0, 50, 60, 60>>
    /\ PassedFrom("t1", 50) = 3

\* C33: after any sequence of register, unregister and reload operations the
\* rate-limiter table has an entry for a name exactly when the tool
\* registered under that name has a rate_limit, and the entry's limit is
\* that tool's rate_limit; so a tool whose metadata has no rate_limit passes
\* the rate-limit stage at every call.
C33_LimitersAgreeWithTools ==
    pc = "loading" =>
        \A n \in ToolNames :
            /\ n \in DOMAIN rate_limiters <=>
                   (n \in DOMAIN tools /\ tools[n].metadata.rate_limit # None)
            /\ n \in DOMAIN rate_limiters =>
                   rate_limiters[n].limit = tools[n].metadata.rate_limit
            /\ (n \in DOMAIN tools /\ tools[n].metadata.rate_limit = None) =>
                   \A first \in {check_rate_limit(rate_limiters, n, now)} :
                       /\ first.ok
                       /\ check_rate_limit(first.limiters, n, now).ok

\* the number of places a name has in the list of a category
Listings(c, n) == Cardinality({i \in 1..Len(categories[c]) : categories[c][i] = n})

\* C34: after any sequence of register, unregister and reload operations the
\* category index agrees with the tool table: a name is listed under
\* category c exactly when a tool is registered under that name with
\* metadata.category = c, and no name is listed twice or under two
\* categories.
C34_CategoriesAgreeWithTools ==
    pc = "loading" =>
        \A n \in ToolNames :
            /\ \A c \in Categories :
                   /\ InSeq(n, categories[c]) <=>
                          (n \in DOMAIN tools /\ tools[n].metadata.category = c)
                   /\ Listings(c, n) <= 1
            /\ Cardinality({c \in Categories : InSeq(n, categories[c])}) <= 1

\* success_rate of _get_server_stats lies within 0 and 1: the numerator
\* request_count - error_count of the quotient is neither negative nor
\* larger than its denominator (the rate is 0 where no request was counted)
SuccessRateInRange ==
    request_count > 0 =>
        /\ request_count - error_count >= 0
        /\ request_count - error_count <= request_count

\* C35: after any sequence of input lines error_count never exceeds
\* request_count: each non-blank line adds exactly one to request_count and
\* at most one to error_count, so the success_rate of the server stats stays
\* within 0 and 1.
C35_ErrorsNeverExceedRequests ==
    /\ error_count <= request_count
    /\ SuccessRateInRange

\* C36: shutdown releases the session of the auth provider only when no
\* request is in flight: the logout started by a termination signal never
\* runs while a tools/call is executing its tool with that auth provider in
\* its context.
C36_NoLogoutWhileExecuting ==
    [][logouts' # logouts => pc # "executing"]_vars

\* the HTTP request of the last invocation of _make_request's body failed
\* with a transport error
TransportFailed ==
    /\ guarded.called
    /\ "RequestError" \in Ancestors(guarded.request)

\* C37: _make_request, declared with retry_on_error(max_retries = 3,
\* retry_exceptions = httpx.RequestError) around handle_errors(reraise =
\* false), repeats the HTTP request up to 3 more times when it fails with a
\* transport error, and raises to its caller if every attempt fails.
C37_TransportErrorsAreRetried ==
    (pc = "requesting" /\ TransportFailed) =>
        IF Len(retrying.outcomes) <= retrying.max_retries
        THEN retrying.result = "pending" /\ retrying.attempt = Len(retrying.outcomes)
        ELSE retrying.result = "raised"

====
